---- MODULE Spec2Model ----
(***************************************************************************)
(* MoneyMate: the transactions a signed-in user records through the        *)
(* dashboard forms, the totals the dashboard derives from them, and the    *)
(* snapshot and tips the AIRecommendations component derives from the      *)
(* rows it fetches from the store.                                         *)
(*                                                                         *)
(* Amounts are whole currency units (JavaScript numbers are exact on       *)
(* them); quotients are exact rationals or the IEEE results of a division  *)
(* by zero.  Row ids are opaque (database UUIDs of which only equality is  *)
(* observed): they are kept renamed to the row's creation rank.            *)
(***************************************************************************)
EXTENDS Integers, Sequences, FiniteSets, TLC

\* Largest number of transaction rows the user holds at a time.
MaxTx == 3

\* Values typed into the number input of the Add Income / Add Expense forms
\* (type="number", no min attribute: negative values and 0 can be typed).
IncomeAmounts == {-800, 0, 800, 5000}
ExpenseAmounts == {-800, 0, 800, 1200}

\* The entries of the category drop-downs that the model uses.
IncomeCategories == {"Salary"}
ExpenseCategories == {"Food & Dining", "Shopping", "Other"}

TabNames == {"income", "expense", "ai-insights"}

\* Largest number of debt rows the user holds at a time, and of transaction
\* rows in the account when the Debt tab is studied.
MaxDebts == 2
MaxLedger == 2

\* Largest number of loadFinancialData invocations of one mounted
\* AIRecommendations.
MaxRequests == 3

\* Largest number of auth state changes while the dashboard is mounted.
MaxAuthEvents == 4

\* The accounts, and the value of user when nobody is signed in.
Users == {"A", "B"}
NoUser == "null"

\* Largest number of rows held by the row-level-secured tables together.
MaxRows == 2

\* The tables of the claim; SQL NULL (auth.uid() of a client without a
\* session, or a user_id left out); the column values a statement can set.
SecuredTables == {"transactions", "debts", "income", "expenses"}
SqlNull == "NULL"
ColumnValues == {0, 1}
NoOp == [uid |-> SqlNull, table |-> "none", cmd |-> "none", target |-> 0,
         rows |-> {}, denied |-> FALSE]

\* Largest number of ai_recommendations rows.
MaxSaved == 2

\* What the language model can return as message content (null: a reply
\* without text).
Contents == {"", "Save 20% of your salary.", "Build an emergency fund."}
NoContent == "null"

\* Values typed into the number inputs of the Add Debt form (no min
\* attribute either).
DebtAmounts == {-1000, 0, 1000}
MinimumPayments == {0, 50, 800}

\* Settings: the delay of the display-name auto-save in milliseconds, the
\* values the display-name input can hold (sequences of characters, " "
\* being white space), the number of edits and Save clicks, and the number
\* of clock steps.
AutoSaveDelay == 2000
DisplayNames == {<<>>, <<" ">>, <<"a">>, <<" ", "b">>}
MaxEdits == 3
MaxTicks == 4
NoTimeout == 0

\* Largest number of rows of public.profiles.
MaxProfiles == 3

\* The shortest password the forms accept, the passwords typed (sequences
\* of characters), the forms that set a password, and the largest number
\* of requests to the authentication backend.
MinPasswordLength == 6
Passwords ==
    {[i \in 1..5 |-> "a"], [i \in 1..6 |-> "a"], [i \in 1..6 |-> "b"], [i \in 1..7 |-> "a"]}
PasswordForms == {"SignUpForm", "Settings"}
MaxAuthRequests == 2

\* ProfileChat: what the user puts into the input, the sends of one chat
\* and the timers that may be pending when a message is sent.
ChatInputs == {<<" ">>, <<"x">>, <<" ", "y">>}
MaxSends == 10
MaxPending == 1

NULL == [kind |-> "null"]

\* No loadFinancialData has completed in the mounted AIRecommendations.
NoFetch == [status |-> "none", rows |-> <<>>]

VARIABLES
    store,          \* rows of public.transactions of the user, in creation order
    transactions,   \* BudgetDashboard state: local list, newest first
    activeTab,      \* selected tab of the dashboard
    financialData,  \* AIRecommendations state: NULL or the snapshot
    lastFetch,      \* outcome of the latest loadFinancialData and its rows
    analysed,       \* the rows financialData was computed from
    toast           \* title of the latest toast ("none": none yet)

VARIABLES
    debtStore,      \* rows of public.debts of the user, in creation order
    debts           \* BudgetDashboard state: local list of debts, newest first

debtVars == <<debtStore, debts>>

VARIABLES
    requests,       \* loadFinancialData invocations of the mounted
                    \* AIRecommendations, in the order they were started
    isLoading       \* AIRecommendations state: an analysis is running

loadVars == <<requests, isLoading>>

VARIABLES
    user,           \* AuthProvider state: the signed-in user, or NoUser
    userLoads,      \* loadUserData invocations awaiting the store, each
                    \* with the user of the render that started it
    authEvents      \* number of auth state changes so far

authVars == <<user, userLoads, authEvents>>

VARIABLES
    tables,         \* the four row-level-secured tables: name -> set of rows
    lastOp          \* the latest statement a client sent, with its outcome

rlsVars == <<tables, lastOp>>

VARIABLES
    edge,               \* the invocation of the recommendation edge function
    ai_recommendations  \* rows of public.ai_recommendations, in creation order

edgeVars == <<edge, ai_recommendations>>

backendVars == <<rlsVars, edgeVars>>

VARIABLES
    settings,            \* Settings state: the form values (displayName)
    displayNameTimeout,  \* Settings state: id of the timer set last, or NoTimeout
    timers,              \* timers set with setTimeout and neither fired nor cleared
    now,                 \* the clock, in milliseconds
    mounted,             \* the Settings component is mounted
    saving,              \* saveDisplayName invocations awaiting the store
    events               \* edits, saveDisplayName calls and the unmount, in order

settingsVars == <<settings, displayNameTimeout, timers, now, mounted, saving, events>>

VARIABLES
    profiles,       \* rows of public.profiles
    account         \* the latest deleteAccount invocation: the answers to
                    \* its two dialogs and the user it ran for

accountVars == <<profiles, account>>

VARIABLES
    submitted,      \* per form, the latest run of its password handler
    authRequests,   \* the passwords the authentication backend was asked to set
    isLoadingOf     \* per form, its isLoading state

passwordVars == <<submitted, authRequests, isLoadingOf>>

VARIABLES
    messages,              \* ProfileChat state: the messages shown, oldest first
    currentQuestionIndex,  \* ProfileChat state: index into questions, from 0
    currentInput,          \* ProfileChat state: the content of the input
    profileData,           \* ProfileChat state: question id -> answer
    isComplete,            \* ProfileChat state: the Complete button replaces the input
    chatTimers,            \* callbacks set with setTimeout(..., 500), oldest first
    hasProfile             \* BudgetDashboard state set by onComplete

chatVars == <<messages, currentQuestionIndex, currentInput, profileData, isComplete,
              chatTimers, hasProfile>>

\* The state of the pages and forms besides the dashboard.
otherPages == <<settingsVars, accountVars, passwordVars, chatVars>>

\* The state of the components that the specification Spec does not run.
elsewhere == <<debtVars, loadVars, authVars, backendVars, otherPages>>

vars ==
    <<store, transactions, activeTab, financialData, lastFetch, analysed, toast,
      elsewhere>>

(***************************************************************************)
(* JavaScript numbers that arise from the divisions of the code.           *)
(***************************************************************************)
RECURSIVE GCD(_, _)
GCD(a, b) == IF b = 0 THEN a ELSE GCD(b, a % b)

Abs(n) == IF n < 0 THEN -n ELSE n

\* The exact quotient n / d (d # 0) in lowest terms, denominator positive.
Rat(n, d) ==
    LET g == GCD(Abs(n), Abs(d))
        s == IF d < 0 THEN -1 ELSE 1
    IN  [kind |-> "finite", num |-> (s * n) \div g, den |-> (s * d) \div g]

NaN == [kind |-> "NaN", num |-> 0, den |-> 0]
PosInfinity == [kind |-> "Infinity", num |-> 1, den |-> 0]
NegInfinity == [kind |-> "-Infinity", num |-> -1, den |-> 0]

\* a / b as JavaScript evaluates it on numbers.
JsDiv(a, b) ==
    IF b # 0 THEN Rat(a, b)
    ELSE IF a = 0 THEN NaN
    ELSE IF a > 0 THEN PosInfinity
    ELSE NegInfinity

\* x * k for a positive integer k.
JsTimes(x, k) == IF x.kind = "finite" THEN Rat(x.num * k, x.den) ELSE x

\* x < k for an integer k (every comparison with NaN is false).
JsLess(x, k) ==
    CASE x.kind = "finite" -> x.num < k * x.den
      [] x.kind = "-Infinity" -> TRUE
      [] OTHER -> FALSE

(***************************************************************************)
(* Array helpers.                                                          *)
(***************************************************************************)
\* array.reduce((sum, t) => sum + t.amount, 0)
RECURSIVE SumAmounts(_)
SumAmounts(s) == IF s = <<>> THEN 0 ELSE s[1].amount + SumAmounts(Tail(s))

\* The filter letting every element through.
FilterNothing(s, ty) == s

\* array.filter(t => t.type === ty)
FilterType(s, ty) == SelectSeq(s, LAMBDA t : t.type = ty)

(***************************************************************************)
(* AIRecommendations.loadFinancialData: the snapshot of the fetched rows.  *)
(* An object with string keys is a sequence of entries in insertion order  *)
(* (the order Object.keys enumerates them in).                             *)
(***************************************************************************)
\* key in obj
HasKey(obj, k) == \E i \in 1..Len(obj) : obj[i].category = k

\* obj[k] for a key that is present
Get(obj, k) == obj[CHOOSE i \in 1..Len(obj) : obj[i].category = k].amount

\* (obj[k] || 0): 0 for an absent key and for a stored 0
GetOrZero(obj, k) == IF HasKey(obj, k) THEN Get(obj, k) ELSE 0

\* obj[k] = v: a present key keeps its place, a new key goes last
Put(obj, k, v) ==
    IF HasKey(obj, k)
    THEN [i \in 1..Len(obj) |->
            IF obj[i].category = k THEN [category |-> k, amount |-> v] ELSE obj[i]]
    ELSE Append(obj, [category |-> k, amount |-> v])

\* The body of the forEach with the running sum dropped.
AccumulateOverwriting(obj, expense) == Put(obj, expense.category, expense.amount)

\* expenseBreakdown[expense.category] =
\*     (expenseBreakdown[expense.category] || 0) + expense.amount
Accumulate(obj, expense) ==
    Put(obj, expense.category, GetOrZero(obj, expense.category) + expense.amount)

RECURSIVE ForEachExpense(_, _)
ForEachExpense(obj, expenses) ==
    IF expenses = <<>> THEN obj
    ELSE ForEachExpense(Accumulate(obj, expenses[1]), Tail(expenses))

ExpenseBreakdown(expenses) == ForEachExpense(<<>>, expenses)

\* The reducer with >= in place of >.
PickTopOrEqual(obj, a, b) ==
    IF HasKey(obj, a) /\ Get(obj, a) >= Get(obj, b) THEN a ELSE b

\* (a, b) => expenseBreakdown[a] > expenseBreakdown[b] ? a : b
\* b is a key; a is a key or the initial 'Other', whose value may be
\* undefined, and undefined > x is false.
PickTop(obj, a, b) ==
    IF HasKey(obj, a) /\ Get(obj, a) > Get(obj, b) THEN a ELSE b

RECURSIVE ReduceKeys(_, _, _)
ReduceKeys(obj, a, i) ==
    IF i > Len(obj) THEN a
    ELSE ReduceKeys(obj, PickTop(obj, a, obj[i].category), i + 1)

\* The reduce started from a category of the form in place of 'Other'.
TopExpenseCategoryFromFood(obj) == ReduceKeys(obj, "Food & Dining", 1)

\* Object.keys(expenseBreakdown).reduce(..., 'Other')
TopExpenseCategory(obj) == ReduceKeys(obj, "Other", 1)

\* The rate as a fraction of income.
SavingsRateAsFraction(totalIncome, balance) ==
    IF totalIncome > 0 THEN JsDiv(balance, totalIncome) ELSE Rat(0, 1)

\* totalIncome > 0 ? (balance / totalIncome) * 100 : 0
SavingsRate(totalIncome, balance) ==
    IF totalIncome > 0 THEN JsTimes(JsDiv(balance, totalIncome), 100) ELSE Rat(0, 1)

\* The balance with the expenses added.
BalanceAdding(totalIncome, totalExpenses) == totalIncome + totalExpenses

\* totalIncome - totalExpenses
Balance(totalIncome, totalExpenses) == totalIncome - totalExpenses

\* The object handed to setFinancialData for a non-empty response.
ComputeSnapshot(rows) ==
    LET income == FilterType(rows, "income")
        expenses == FilterType(rows, "expense")
        totalIncome == SumAmounts(income)
        totalExpenses == SumAmounts(expenses)
        balance == Balance(totalIncome, totalExpenses)
        expenseBreakdown == ExpenseBreakdown(expenses)
        topExpenseCategory == TopExpenseCategory(expenseBreakdown)
    IN  [kind |-> "snapshot",
         totalIncome |-> totalIncome,
         totalExpenses |-> totalExpenses,
         balance |-> balance,
         savingsRate |-> SavingsRate(totalIncome, balance),
         expenseBreakdown |-> expenseBreakdown,
         topExpenseCategory |-> topExpenseCategory,
         biggestExpense |-> GetOrZero(expenseBreakdown, topExpenseCategory),
         monthlyTrend |-> IF balance > 0 THEN "increasing" ELSE "decreasing"]

(***************************************************************************)
(* AIRecommendations.getPersonalizedTips: the titles of the tips, in the   *)
(* order they are pushed.                                                  *)
(***************************************************************************)
BoostSavings == "Boost Your Savings"
OptimizeBiggest == "Optimize Your Biggest Expense"
AddressOverspending == "Address Overspending"
DoingGreat == "You're Doing Great!"

\* The first rule with the threshold 0.
SavingsRuleBelowZero(data) == JsLess(data.savingsRate, 0)

\* data.savingsRate < 20
SavingsRule(data) == JsLess(data.savingsRate, 20)

\* data.biggestExpense > data.totalExpenses * 0.4
BiggestExpenseRule(data) == 10 * data.biggestExpense > 4 * data.totalExpenses

\* data.balance < 0
OverspendingRule(data) == data.balance < 0

\* The tips with the overspending one moved to the front.
getPersonalizedTipsUrgentFirst(data) ==
    LET t0 == IF OverspendingRule(data) THEN <<AddressOverspending>> ELSE <<>>
        t1 == IF SavingsRule(data) THEN Append(t0, BoostSavings) ELSE t0
        t2 == IF BiggestExpenseRule(data) THEN Append(t1, OptimizeBiggest) ELSE t1
    IN  IF Len(t2) = 0 THEN <<DoingGreat>> ELSE t2

\* The tips with the closing one pushed whatever came before it.
getPersonalizedTipsAlwaysGreat(data) ==
    LET t1 == IF SavingsRule(data) THEN <<BoostSavings>> ELSE <<>>
        t2 == IF BiggestExpenseRule(data) THEN Append(t1, OptimizeBiggest) ELSE t1
        t3 == IF OverspendingRule(data) THEN Append(t2, AddressOverspending) ELSE t2
    IN  Append(t3, DoingGreat)

getPersonalizedTips(data) ==
    LET t1 == IF SavingsRule(data) THEN <<BoostSavings>> ELSE <<>>
        t2 == IF BiggestExpenseRule(data) THEN Append(t1, OptimizeBiggest) ELSE t1
        t3 == IF OverspendingRule(data) THEN Append(t2, AddressOverspending) ELSE t2
    IN  IF Len(t3) = 0 THEN <<DoingGreat>> ELSE t3

(***************************************************************************)
(* BudgetDashboard: the values derived from the local transactions list.   *)
(***************************************************************************)
\* transactions.filter(t => t.type === 'income').reduce(...)
TotalIncome(txs) == SumAmounts(FilterType(txs, "income"))

\* transactions.filter(t => t.type === 'expense').reduce(...)
TotalExpenses(txs) == SumAmounts(FilterType(txs, "expense"))

\* The object the useMemo returns (the debt fields are not modelled here).
Totals(txs) ==
    [totalIncome |-> TotalIncome(txs),
     totalExpenses |-> TotalExpenses(txs),
     balance |-> Balance(TotalIncome(txs), TotalExpenses(txs))]

\* The AI Financial Summary card is rendered when an income entry exists.
SummaryCardShown(txs) == Len(FilterType(txs, "income")) > 0

\* ((balance / totalIncome) * 100) as the card computes it
SummarySavingsRate(txs) ==
    JsTimes(JsDiv(Totals(txs).balance, Totals(txs).totalIncome), 100)

(***************************************************************************)
(* CategoryChart: expenseData and the total drawn from it.                 *)
(***************************************************************************)
\* The entry goes after the entries that the comparator b.amount - a.amount
\* does not put behind it (Array.prototype.sort is stable).
RECURSIVE InsertDescending(_, _)
InsertDescending(sorted, e) ==
    IF sorted = <<>> THEN <<e>>
    ELSE IF sorted[1].amount >= e.amount
         THEN <<sorted[1]>> \o InsertDescending(Tail(sorted), e)
         ELSE <<e>> \o sorted

RECURSIVE SortDescending(_)
SortDescending(s) ==
    IF s = <<>> THEN <<>>
    ELSE InsertDescending(SortDescending(SubSeq(s, 1, Len(s) - 1)), s[Len(s)])

expenseData(txs) == SortDescending(ExpenseBreakdown(FilterType(txs, "expense")))

\* expenseData.reduce((sum, item) => sum + item.amount, 0)
ChartTotalExpenses(txs) == SumAmounts(expenseData(txs))

(***************************************************************************)
(* The store.                                                              *)
(***************************************************************************)
Row(id, ty, amount, category) ==
    [id |-> id, type |-> ty, amount |-> amount, category |-> category]

\* The orderings of a list of rows.
IndexOrders ==
    [n \in 0..MaxTx |->
        {f \in [1..n -> 1..n] : \A i, j \in 1..n : f[i] = f[j] => i = j}]

Orderings(s) == {[i \in 1..Len(s) |-> s[f[i]]] : f \in IndexOrders[Len(s)]}

\* Ids renamed after the row with id k is gone.
Renamed(row, k) == IF row.id > k THEN [row EXCEPT !.id = row.id - 1] ELSE row

WithoutId(s, k) ==
    LET kept == SelectSeq(s, LAMBDA t : t.id # k)
    IN  [i \in 1..Len(kept) |-> Renamed(kept[i], k)]

\* The edge function is not running.
NoResponse == [status |-> 0, kind |-> "none", text |-> ""]
EdgeIdle ==
    [pc |-> "idle", user |-> SqlNull, content |-> NoContent, rowsBefore |-> 0,
     response |-> NoResponse, steps |-> <<>>]

\* The Settings page as it is mounted: nothing typed, no timer set.
SettingsIdle ==
    /\ settings = [displayName |-> <<>>]
    /\ displayNameTimeout = NoTimeout
    /\ timers = {}
    /\ now = 0
    /\ mounted = TRUE
    /\ saving = <<>>
    /\ events = <<>>

\* No profile row yet, and deleteAccount has not been invoked.
NoInvocation == [user |-> NoUser, firstConfirm |-> FALSE, secondConfirm |-> FALSE]
AccountIdle ==
    /\ profiles = {}
    /\ account = NoInvocation

\* No password handler has run.
NotSubmitted == [password |-> <<>>, confirmPassword |-> <<>>, phase |-> "none", toast |-> "none"]
PasswordIdle ==
    /\ submitted = [f \in PasswordForms |-> NotSubmitted]
    /\ authRequests = <<>>
    /\ isLoadingOf = [f \in PasswordForms |-> FALSE]

\* const questions = [...]: the id and the text of each question.
questions ==
    <<[id |-> "name", question |-> "Hi! I'm your financial assistant. What's your name?"],
      [id |-> "age", question |-> "Nice to meet you! How old are you?"],
      [id |-> "occupation", question |-> "What do you do for work?"],
      [id |-> "income", question |-> "What's your approximate monthly income?"],
      [id |-> "expenses", question |-> "How much do you typically spend each month?"],
      [id |-> "debt", question |-> "Do you have any outstanding debt? If yes, how much?"],
      [id |-> "financialGoals", 
       question |-> "What are your main financial goals? (e.g., save for retirement, buy a house, pay off debt)"],
      [id |-> "riskTolerance",
       question |-> "How would you describe your risk tolerance when it comes to investments?"],
      [id |-> "investmentExperience", question |-> "What's your experience level with investing?"]>>

Message(type, content) == [type |-> type, content |-> content]

Welcome ==
    "Welcome to MoneyMate! I'm here to help you set up your financial profile. Let's start with some basic information to personalize your experience."
Perfect ==
    "Perfect! I have all the information I need. Let me set up your personalized financial profile."

\* ProfileChat as it is mounted: the welcome message and an empty input.
ChatIdle ==
    /\ messages = <<Message("bot", Welcome)>>
    /\ currentQuestionIndex = 0
    /\ currentInput = <<>>
    /\ profileData = <<>>
    /\ isComplete = FALSE
    /\ chatTimers = <<>>
    /\ hasProfile = FALSE

OtherPagesInit == SettingsIdle /\ AccountIdle /\ PasswordIdle /\ ChatIdle

(***************************************************************************)
(* Initial state: a signed-in user with a profile and no rows, on the      *)
(* default tab; AIRecommendations is not mounted.  OnboardingForm and the  *)
(* TransactionForm modal are rendered under showOnboarding and showForm,   *)
(* which nothing sets to true: rows come from the two tab forms only.      *)
(***************************************************************************)
Init ==
    /\ store = <<>>
    /\ transactions = <<>>
    /\ activeTab = "income"
    /\ financialData = NULL
    /\ lastFetch = NoFetch
    /\ analysed = <<>>
    /\ toast = "none"
    /\ debtStore = <<>>
    /\ debts = <<>>
    /\ requests = <<>>
    /\ isLoading = FALSE
    /\ user = "A"
    /\ userLoads = <<>>
    /\ authEvents = 0
    /\ tables = [t \in SecuredTables |-> {}]
    /\ lastOp = NoOp
    /\ edge = EdgeIdle
    /\ ai_recommendations = <<>>
    /\ OtherPagesInit

(***************************************************************************)
(* BudgetDashboard.handleAddTransaction, with the outcome of the insert.   *)
(***************************************************************************)
handleAddTransaction(ty, amount, category, ok) ==
    IF ok
    THEN LET data == Row(Len(store) + 1, ty, amount, category)
         IN  /\ store' = Append(store, data)
             /\ transactions' = <<data>> \o transactions
             /\ toast' = "Transaction saved!"
    ELSE /\ toast' = "Error saving transaction"
         /\ UNCHANGED <<store, transactions>>

\* onSubmit of the Add Income form: if (amount && category && description)
SubmitAddIncome ==
    /\ activeTab = "income"
    /\ Len(store) < MaxTx
    /\ \E amount \in IncomeAmounts, category \in IncomeCategories, ok \in BOOLEAN :
          /\ amount # 0
          /\ handleAddTransaction("income", amount, category, ok)
    /\ UNCHANGED <<activeTab, financialData, lastFetch, analysed, elsewhere>>

\* onSubmit of the Add Expense form
SubmitAddExpense ==
    /\ activeTab = "expense"
    /\ Len(store) < MaxTx
    /\ \E amount \in ExpenseAmounts, category \in ExpenseCategories, ok \in BOOLEAN :
          /\ amount # 0
          /\ handleAddTransaction("expense", amount, category, ok)
    /\ UNCHANGED <<activeTab, financialData, lastFetch, analysed, elsewhere>>

(***************************************************************************)
(* BudgetDashboard.handleDeleteTransaction, from the TransactionList of    *)
(* the selected tab (which lists the entries of the tab's type).           *)
(***************************************************************************)
handleDeleteTransaction ==
    /\ \E i \in 1..Len(transactions), ok \in BOOLEAN :
          /\ transactions[i].type = activeTab
          /\ IF ok
             THEN /\ store' = WithoutId(store, transactions[i].id)
                  /\ transactions' = WithoutId(transactions, transactions[i].id)
                  /\ toast' = "Transaction removed!"
             ELSE /\ toast' = "Error removing transaction"
                  /\ UNCHANGED <<store, transactions>>
    /\ UNCHANGED <<activeTab, financialData, lastFetch, analysed, elsewhere>>

(***************************************************************************)
(* AIRecommendations.loadFinancialData with the outcome of the select:     *)
(* the state is set only for a response that holds at least one row.  The  *)
(* select has no order clause; the rows are delivered in creation order or *)
(* in the reverse of it (the forms can create the rows in any order, so    *)
(* every ordering of every list is analysed).                              *)
(***************************************************************************)
Reverse(s) == [i \in 1..Len(s) |-> s[Len(s) + 1 - i]]

Responses(rows) == {rows, Reverse(rows)}

loadFinancialData(held, heldRows, ok, rows) ==
    IF ok
    THEN /\ lastFetch' = [status |-> "ok", rows |-> rows]
         /\ financialData' = IF Len(rows) > 0 THEN ComputeSnapshot(rows) ELSE held
         /\ analysed' = IF Len(rows) > 0 THEN rows ELSE heldRows
    ELSE /\ lastFetch' = [status |-> "error", rows |-> <<>>]
         /\ financialData' = held
         /\ analysed' = heldRows

\* The tab is selected: the content of the tab left is unmounted, and
\* AIRecommendations, when mounted, starts with its initial state and runs
\* loadFinancialData from its effect.
SelectTab ==
    /\ \E tab \in TabNames \ {activeTab} :
          /\ activeTab' = tab
          /\ IF tab = "ai-insights"
             THEN \E ok \in BOOLEAN, rows \in Responses(store) :
                     loadFinancialData(NULL, <<>>, ok, rows)
             ELSE /\ financialData' = NULL
                  /\ lastFetch' = NoFetch
                  /\ analysed' = <<>>
    /\ UNCHANGED <<store, transactions, toast, elsewhere>>

\* AIRecommendations.generateRecommendations (Start Analysis / Refresh
\* Analysis): loadFinancialData swallows its errors, so the success toast
\* follows in every case.
generateRecommendations ==
    /\ activeTab = "ai-insights"
    /\ \E ok \in BOOLEAN, rows \in Responses(store) :
          loadFinancialData(financialData, analysed, ok, rows)
    /\ toast' = "Financial Analysis Complete!"
    /\ UNCHANGED <<store, transactions, activeTab, elsewhere>>

Next ==
    \/ SubmitAddIncome
    \/ SubmitAddExpense
    \/ handleDeleteTransaction
    \/ SelectTab
    \/ generateRecommendations

Spec == Init /\ [][Next]_vars

(***************************************************************************)
(* BudgetDashboard, Debt tab: the debts of the user, the figures the       *)
(* useMemo derives from them and from the transactions, and the AI Debt    *)
(* Strategy card.  A debt is held with its amount and minimum payment      *)
(* (interest rate, description and date enter no figure).                  *)
(***************************************************************************)
DebtRow(id, amount, minimumPayment) ==
    [id |-> id, amount |-> amount, minimumPayment |-> minimumPayment]

\* debts.reduce((sum, debt) => sum + debt.minimumPayment, 0)
RECURSIVE SumMinimumPayments(_)
SumMinimumPayments(ds) ==
    IF ds = <<>> THEN 0 ELSE ds[1].minimumPayment + SumMinimumPayments(Tail(ds))

\* The income alone.
AvailableForDebtIncomeOnly(income, expenses) == income

\* const availableForDebt = income - expenses
AvailableForDebt(income, expenses) == income - expenses

\* The debt fields of the object the useMemo returns.
DebtTotals(txs, ds) ==
    [totalDebt |-> SumAmounts(ds),
     monthlyDebtPayment |-> SumMinimumPayments(ds),
     availableForDebt |-> AvailableForDebt(TotalIncome(txs), TotalExpenses(txs))]

\* {totalDebt > 0 && (<Card> AI Debt Strategy ...)}
DebtStrategyShown(m) == m.totalDebt > 0

CanAfford == "Can Afford Payments"
NeedMoreIncome == "Need More Income"

\* Debt Analysis, the Status line.
DebtStatus(m) ==
    IF m.availableForDebt >= m.monthlyDebtPayment THEN CanAfford ELSE NeedMoreIncome

\* Math.ceil on a quotient.
MathCeil(x) ==
    IF x.kind = "finite" THEN Rat(-((-x.num) \div x.den), 1) ELSE x

FocusOnIncome == [kind |-> "Focus on income first", num |-> 0, den |-> 0]

\* The timeline with the division made on equal figures too.
DebtFreeTimelineOrEqual(m) ==
    IF m.availableForDebt >= m.monthlyDebtPayment
    THEN MathCeil(JsDiv(m.totalDebt, m.availableForDebt - m.monthlyDebtPayment))
    ELSE FocusOnIncome

\* Debt-Free Timeline: the number of months, or the text shown instead.
DebtFreeTimeline(m) ==
    IF m.availableForDebt > m.monthlyDebtPayment
    THEN MathCeil(JsDiv(m.totalDebt, m.availableForDebt - m.monthlyDebtPayment))
    ELSE FocusOnIncome

\* The rows the two tab forms can have stored, with the categories that
\* the debt figures do not read reduced to one per type.
LedgerRows ==
    {<<"income", a, "Salary">> : a \in IncomeAmounts \ {0}}
        \cup {<<"expense", a, "Other">> : a \in ExpenseAmounts \ {0}}

Ledgers ==
    UNION {{[i \in 1..n |-> Row(i, f[i][1], f[i][2], f[i][3])] :
                f \in [1..n -> LedgerRows]} : n \in 0..MaxLedger}

\* The Debt tab is open on an account that holds some transactions and no
\* debt; loadUserData has put the transactions, newest first, into the
\* local list.
DebtInit ==
    /\ store \in Ledgers
    /\ transactions = Reverse(store)
    /\ activeTab = "debt"
    /\ financialData = NULL
    /\ lastFetch = NoFetch
    /\ analysed = <<>>
    /\ toast = "none"
    /\ debtStore = <<>>
    /\ debts = <<>>
    /\ requests = <<>>
    /\ isLoading = FALSE
    /\ user = "A"
    /\ userLoads = <<>>
    /\ authEvents = 0
    /\ tables = [t \in SecuredTables |-> {}]
    /\ lastOp = NoOp
    /\ edge = EdgeIdle
    /\ ai_recommendations = <<>>
    /\ OtherPagesInit

\* handleAddDebt: insert(...).select().single(), then the local list
\* gets the returned row in front.
handleAddDebt(amount, minimumPayment, ok) ==
    IF ok
    THEN LET data == DebtRow(Len(debtStore) + 1, amount, minimumPayment)
         IN  /\ debtStore' = Append(debtStore, data)
             /\ debts' = <<data>> \o debts
             /\ toast' = "Debt saved!"
    ELSE /\ toast' = "Error saving debt"
         /\ UNCHANGED <<debtStore, debts>>

\* Add Debt form: onSubmit calls handleAddDebt if amount, interestRate,
\* minimumPayment and description are all truthy.
SubmitAddDebt ==
    /\ activeTab = "debt"
    /\ Len(debtStore) < MaxDebts
    /\ \E amount \in DebtAmounts, minimumPayment \in MinimumPayments, ok \in BOOLEAN :
          /\ amount # 0
          /\ minimumPayment # 0
          /\ handleAddDebt(amount, minimumPayment, ok)
    /\ UNCHANGED <<store, transactions, activeTab, financialData, lastFetch, analysed>>
    /\ UNCHANGED <<loadVars, authVars, backendVars, otherPages>>

\* prev.filter((_, i) => i !== index)
FilterIndex(s, index) == [i \in 1..(Len(s) - 1) |-> IF i < index THEN s[i] ELSE s[i + 1]]

\* handleDeleteDebt(index): Remove button of the debt at the index.
handleDeleteDebt ==
    /\ activeTab = "debt"
    /\ \E index \in 1..Len(debts), ok \in BOOLEAN :
          LET debtToDelete == debts[index]
              kept == FilterIndex(debts, index)
          IN  IF ok
              THEN /\ debtStore' = WithoutId(debtStore, debtToDelete.id)
                   /\ debts' = [i \in 1..Len(kept) |-> Renamed(kept[i], debtToDelete.id)]
                   /\ toast' = "Debt removed!"
              ELSE /\ toast' = "Error removing debt"
                   /\ UNCHANGED <<debtStore, debts>>
    /\ UNCHANGED <<store, transactions, activeTab, financialData, lastFetch, analysed>>
    /\ UNCHANGED <<loadVars, authVars, backendVars, otherPages>>

DebtNext ==
    \/ SubmitAddDebt
    \/ handleDeleteDebt

DebtSpec == DebtInit /\ [][DebtNext]_vars

(***************************************************************************)
(* AIRecommendations with its requests in flight: every loadFinancialData  *)
(* invocation awaits the select on transactions and goes on when the       *)
(* response arrives.  The invocation of the mount effect does not touch    *)
(* isLoading, so the analysis button is enabled while it is pending.       *)
(***************************************************************************)
Request(origin, phase, ok, rows) ==
    [origin |-> origin, phase |-> phase, ok |-> ok, rows |-> rows]

\* AIRecommendations has just been mounted on an account without rows:
\* its effect has started the first loadFinancialData.
LoadInit ==
    /\ store = <<>>
    /\ transactions = <<>>
    /\ activeTab = "ai-insights"
    /\ financialData = NULL
    /\ lastFetch = NoFetch
    /\ analysed = <<>>
    /\ toast = "none"
    /\ debtStore = <<>>
    /\ debts = <<>>
    /\ requests = <<Request("mount", "sent", TRUE, <<>>)>>
    /\ isLoading = FALSE
    /\ user = "A"
    /\ userLoads = <<>>
    /\ authEvents = 0
    /\ tables = [t \in SecuredTables |-> {}]
    /\ lastOp = NoOp
    /\ edge = EdgeIdle
    /\ ai_recommendations = <<>>
    /\ OtherPagesInit

\* The analysis button (disabled={isLoading}) is pressed:
\* generateRecommendations sets isLoading and calls loadFinancialData.
StartAnalysis ==
    /\ ~isLoading
    /\ Len(requests) < MaxRequests
    /\ isLoading' = TRUE
    /\ requests' = Append(requests, Request("refresh", "sent", TRUE, <<>>))
    /\ UNCHANGED <<store, transactions, activeTab, financialData, lastFetch, analysed, toast>>
    /\ UNCHANGED <<debtVars, authVars, backendVars, otherPages>>

\* An insert into transactions of the same user is committed while the
\* AI Insights tab is open (handleAddTransaction's insert, sent before the
\* tab was selected or by another session of the user).
InsertCommits ==
    /\ Len(store) < MaxLedger
    /\ \E r \in LedgerRows :
          store' = Append(store, Row(Len(store) + 1, r[1], r[2], r[3]))
    /\ UNCHANGED <<transactions, activeTab, financialData, lastFetch, analysed, toast>>
    /\ UNCHANGED <<debtVars, loadVars, authVars, backendVars, otherPages>>

\* The store answers a select: the rows it holds at that moment, in some
\* order, or an error.
StoreAnswers ==
    /\ \E i \in DOMAIN requests, ok \in BOOLEAN, rows \in Responses(store) :
          /\ requests[i].phase = "sent"
          /\ requests' =
                [requests EXCEPT ![i] =
                    Request(requests[i].origin, "answered", ok, IF ok THEN rows ELSE <<>>)]
    /\ UNCHANGED <<store, transactions, activeTab, financialData, lastFetch, analysed, toast>>
    /\ UNCHANGED <<debtVars, isLoading, authVars, backendVars, otherPages>>

\* A response arrives and its invocation runs to its end; an invocation
\* started by generateRecommendations then shows the toast and resets
\* isLoading.
ResponseArrives ==
    /\ \E i \in DOMAIN requests :
          /\ requests[i].phase = "answered"
          /\ requests' = [requests EXCEPT ![i].phase = "done"]
          /\ loadFinancialData(financialData, analysed, requests[i].ok, requests[i].rows)
          /\ IF requests[i].origin = "refresh"
             THEN toast' = "Financial Analysis Complete!" /\ isLoading' = FALSE
             ELSE UNCHANGED <<toast, isLoading>>
    /\ UNCHANGED <<store, transactions, activeTab>>
    /\ UNCHANGED <<debtVars, authVars, backendVars, otherPages>>

LoadNext ==
    \/ StartAnalysis
    \/ InsertCommits
    \/ StoreAnswers
    \/ ResponseArrives

LoadSpec == LoadInit /\ [][LoadNext]_vars

(***************************************************************************)
(* BudgetDashboard under AuthProvider: the dashboard is rendered with or   *)
(* without a signed-in user; its effect on [user] starts loadUserData      *)
(* whenever user becomes a user.  Each account holds one transaction and   *)
(* one debt; a row's owner is the account that holds it (the local lists   *)
(* keep id, not user_id).                                                  *)
(***************************************************************************)
TransactionsOf(u) ==
    IF u = "A" THEN <<Row(1, "income", 5000, "Salary")>>
    ELSE <<Row(2, "expense", 800, "Other")>>

DebtsOf(u) ==
    IF u = "A" THEN <<DebtRow(1, 1000, 50)>> ELSE <<DebtRow(2, 1000, 800)>>

\* The dashboard has been mounted, AuthProvider has not yet learnt of a
\* session and nothing is loaded.
AuthInit ==
    /\ store = <<>>
    /\ transactions = <<>>
    /\ activeTab = "income"
    /\ financialData = NULL
    /\ lastFetch = NoFetch
    /\ analysed = <<>>
    /\ toast = "none"
    /\ debtStore = <<>>
    /\ debts = <<>>
    /\ requests = <<>>
    /\ isLoading = FALSE
    /\ user = NoUser
    /\ userLoads = <<>>
    /\ authEvents = 0
    /\ tables = [t \in SecuredTables |-> {}]
    /\ lastOp = NoOp
    /\ edge = EdgeIdle
    /\ ai_recommendations = <<>>
    /\ OtherPagesInit

\* AuthProvider: getSession resolves or onAuthStateChange fires with
\* another session (sign-in, sign-out, expiry, a change made in another
\* browser tab): setUser(session?.user ?? null); the dashboard's effect
\* then calls loadUserData if there is a user.
onAuthStateChange ==
    /\ authEvents < MaxAuthEvents
    /\ authEvents' = authEvents + 1
    /\ \E u \in (Users \cup {NoUser}) \ {user} :
          /\ user' = u
          /\ userLoads' = IF u # NoUser THEN Append(userLoads, u) ELSE userLoads
    /\ UNCHANGED <<store, transactions, activeTab, financialData, lastFetch, analysed, toast>>
    /\ UNCHANGED <<debtVars, loadVars, backendVars, otherPages>>

\* A loadUserData invocation gets its answers and runs to its end: the
\* rows of the user it was started for replace both local lists, or the
\* error toast is shown.
loadUserData ==
    /\ \E i \in DOMAIN userLoads, ok \in BOOLEAN :
          /\ userLoads' = FilterIndex(userLoads, i)
          /\ IF ok
             THEN /\ transactions' = Reverse(TransactionsOf(userLoads[i]))
                  /\ debts' = Reverse(DebtsOf(userLoads[i]))
                  /\ UNCHANGED toast
             ELSE /\ toast' = "Error loading data"
                  /\ UNCHANGED <<transactions, debts>>
    /\ UNCHANGED <<store, activeTab, financialData, lastFetch, analysed>>
    /\ UNCHANGED <<debtStore, loadVars, user, authEvents, backendVars, otherPages>>

AuthNext ==
    \/ onAuthStateChange
    \/ loadUserData

AuthSpec == AuthInit /\ [][AuthNext]_vars

(***************************************************************************)
(* The store under the declared row-level-security policies.  A client     *)
(* holds the session of a user or none (auth.uid() is then NULL) and sends *)
(* statements of its own choosing: any filter, any user_id in the payload. *)
(* The service role, which bypasses the policies, is not a client.         *)
(***************************************************************************)
Clients == Users \cup {SqlNull}

\* a = b in SQL, taken as a condition: NULL on either side is not TRUE.
SqlEq(a, b) == a # SqlNull /\ b # SqlNull /\ a = b

\* USING (true)
AnyRow(uid, row) == TRUE

\* (auth.uid() = user_id)
OwnRow(uid, row) == SqlEq(uid, row.user_id)

\* The policies of each table: every one of them, for SELECT, INSERT,
\* UPDATE and DELETE, has the same expression.
transactionsPolicy(cmd, uid, row) == OwnRow(uid, row)
debtsPolicy(cmd, uid, row) == OwnRow(uid, row)
incomePolicy(cmd, uid, row) == OwnRow(uid, row)
expensesPolicy(cmd, uid, row) == OwnRow(uid, row)

Policy(t, cmd, uid, row) ==
    CASE t = "transactions" -> transactionsPolicy(cmd, uid, row)
      [] t = "debts" -> debtsPolicy(cmd, uid, row)
      [] t = "income" -> incomePolicy(cmd, uid, row)
      [] t = "expenses" -> expensesPolicy(cmd, uid, row)

\* The rows of a table that a statement of the client can read.
Visible(t, uid) == {r \in tables[t] : Policy(t, "SELECT", uid, r)}

\* An UPDATE policy declared with USING only: the expression is the check
\* of the new row as well.
UpdateCheck(t, uid, row) == Policy(t, "UPDATE", uid, row)

RowCount == Cardinality(UNION {tables[t] : t \in SecuredTables})

TableRow(id, owner, v) == [id |-> id, user_id |-> owner, v |-> v]

FreshId == CHOOSE n \in 1..(MaxRows + 1) :
               \A t \in SecuredTables : \A r \in tables[t] : r.id # n

Op(uid, t, cmd, target, rows, denied) ==
    [uid |-> uid, table |-> t, cmd |-> cmd, target |-> target, rows |-> rows,
     denied |-> denied]

\* select * from t
ClientSelect ==
    /\ \E uid \in Clients, t \in SecuredTables :
          lastOp' = Op(uid, t, "SELECT", 0, Visible(t, uid), FALSE)
    /\ UNCHANGED tables
    /\ UNCHANGED <<store, transactions, activeTab, financialData, lastFetch, analysed, toast>>
    /\ UNCHANGED <<debtVars, loadVars, authVars, edgeVars, otherPages>>

\* insert into t (user_id, v) values (owner, 0)
ClientInsert ==
    /\ RowCount < MaxRows
    /\ \E uid \in Clients, t \in SecuredTables, owner \in Clients :
          LET row == TableRow(FreshId, owner, 0)
          IN  IF Policy(t, "INSERT", uid, row)
              THEN /\ tables' = [tables EXCEPT ![t] = @ \cup {row}]
                   /\ lastOp' = Op(uid, t, "INSERT", row.id, {row}, FALSE)
              ELSE /\ lastOp' = Op(uid, t, "INSERT", row.id, {}, TRUE)
                   /\ UNCHANGED tables
    /\ UNCHANGED <<store, transactions, activeTab, financialData, lastFetch, analysed, toast>>
    /\ UNCHANGED <<debtVars, loadVars, authVars, edgeVars, otherPages>>

\* update t set user_id = owner, v = v where id = target
ClientUpdate ==
    /\ \E uid \in Clients, t \in SecuredTables, owner \in Clients, v \in ColumnValues :
        \E old \in tables[t] :
          LET new == TableRow(old.id, owner, v)
              found == old \in Visible(t, uid) /\ Policy(t, "UPDATE", uid, old)
          IN  IF ~found
              THEN /\ lastOp' = Op(uid, t, "UPDATE", old.id, {}, FALSE)
                   /\ UNCHANGED tables
              ELSE IF UpdateCheck(t, uid, new)
              THEN /\ tables' = [tables EXCEPT ![t] = (@ \ {old}) \cup {new}]
                   /\ lastOp' = Op(uid, t, "UPDATE", old.id, {new}, FALSE)
              ELSE /\ lastOp' = Op(uid, t, "UPDATE", old.id, {}, TRUE)
                   /\ UNCHANGED tables
    /\ UNCHANGED <<store, transactions, activeTab, financialData, lastFetch, analysed, toast>>
    /\ UNCHANGED <<debtVars, loadVars, authVars, edgeVars, otherPages>>

\* delete from t where id = target
ClientDelete ==
    /\ \E uid \in Clients, t \in SecuredTables :
        \E old \in tables[t] :
          LET found == old \in Visible(t, uid) /\ Policy(t, "DELETE", uid, old)
          IN  IF found
              THEN /\ tables' = [tables EXCEPT ![t] = @ \ {old}]
                   /\ lastOp' = Op(uid, t, "DELETE", old.id, {old}, FALSE)
              ELSE /\ lastOp' = Op(uid, t, "DELETE", old.id, {}, FALSE)
                   /\ UNCHANGED tables
    /\ UNCHANGED <<store, transactions, activeTab, financialData, lastFetch, analysed, toast>>
    /\ UNCHANGED <<debtVars, loadVars, authVars, edgeVars, otherPages>>

RlsNext ==
    \/ ClientSelect
    \/ ClientInsert
    \/ ClientUpdate
    \/ ClientDelete

RlsSpec == Init /\ [][RlsNext]_vars

(***************************************************************************)
(* The recommendation edge function (serve handler), one step per await;   *)
(* an invocation runs from the request to its response.                    *)
(***************************************************************************)
\* Every failure answered as the catch block answers.
ErrorResponseOfCatch(status, message) == [status |-> 500, kind |-> "error", text |-> message]

\* new Response(JSON.stringify({ error }), { status })
ErrorResponse(status, message) == [status |-> status, kind |-> "error", text |-> message]

\* new Response(JSON.stringify({ recommendations }), ...): status 200
OkResponse(recommendations) ==
    [status |-> 200, kind |-> "recommendations", text |-> recommendations]

Responded(response) == [edge EXCEPT !.pc = "done", !.response = response]

\* The awaited call step has returned with the outcome ("ok", "failed" or,
\* for the profile, "missing") and the function goes on as next says.
Step(step, outcome, next) ==
    [next EXCEPT !.steps = Append(edge.steps, [step |-> step, outcome |-> outcome])]

\* The row without its owner.
SavedRowOfNobody(u, recommendations) ==
    [user_id |-> SqlNull, recommendations |-> recommendations]

\* insert({ user_id: user.id, recommendations: recommendations })
SavedRow(u, recommendations) == [user_id |-> u, recommendations |-> recommendations]

EdgeUnchanged ==
    /\ UNCHANGED <<store, transactions, activeTab, financialData, lastFetch, analysed, toast>>
    /\ UNCHANGED <<debtVars, loadVars, authVars, rlsVars, otherPages>>

\* A request arrives: the preflight is answered at once, a request without
\* an Authorization header fails, any other goes on to auth.getUser.
serve ==
    /\ edge.pc \in {"idle", "done"}
    /\ Len(ai_recommendations) < MaxSaved
    /\ \E req \in {"OPTIONS", "no header", "bearer"} :
          LET started == [EdgeIdle EXCEPT !.rowsBefore = Len(ai_recommendations)]
          IN  edge' =
                CASE req = "OPTIONS" ->
                       [started EXCEPT !.pc = "done",
                                       !.response = [status |-> 200, kind |-> "none", text |-> ""]]
                  [] req = "no header" ->
                       [started EXCEPT !.pc = "done",
                                       !.response = ErrorResponse(500, "No authorization header")]
                  [] OTHER -> [started EXCEPT !.pc = "getUser"]
    /\ UNCHANGED ai_recommendations
    /\ EdgeUnchanged

\* supabase.auth.getUser(token)
getUser ==
    /\ edge.pc = "getUser"
    /\ \E u \in Clients :
          edge' = IF u = SqlNull
                  THEN Step("getUser", "failed", Responded(ErrorResponse(500, "Invalid token")))
                  ELSE Step("getUser", "ok", [edge EXCEPT !.pc = "profile", !.user = u])
    /\ UNCHANGED ai_recommendations
    /\ EdgeUnchanged

\* select on profiles ... maybeSingle()
fetchProfile ==
    /\ edge.pc = "profile"
    /\ \E got \in {"error", "none", "found"} :
          edge' =
            CASE got = "error" ->
                   Step("profile", "failed",
                        Responded(ErrorResponse(500, "Failed to fetch profile")))
              [] got = "none" ->
                   Step("profile", "missing",
                        Responded(ErrorResponse(400, "Profile not found. Please complete your profile first.")))
              [] OTHER -> Step("profile", "ok", [edge EXCEPT !.pc = "transactions"])
    /\ UNCHANGED ai_recommendations
    /\ EdgeUnchanged

\* select on transactions; the summary and the prompt follow at once.
fetchTransactions ==
    /\ edge.pc = "transactions"
    /\ \E ok \in BOOLEAN :
          edge' = IF ok THEN Step("transactions", "ok", [edge EXCEPT !.pc = "openai"])
                  ELSE Step("transactions", "failed",
                            Responded(ErrorResponse(500, "Failed to fetch transactions")))
    /\ UNCHANGED ai_recommendations
    /\ EdgeUnchanged

\* fetch of the chat completion: not ok, a body without choices, or
\* data.choices[0].message.content.
callOpenAI ==
    /\ edge.pc = "openai"
    /\ \E got \in {"not ok", "no choices", "content"}, c \in Contents \cup {NoContent} :
          edge' =
            CASE got = "not ok" ->
                   Step("openai", "failed", Responded(ErrorResponse(500, "OpenAI API error")))
              [] got = "no choices" ->
                   Step("openai", "failed", Responded(ErrorResponse(500, "TypeError")))
              [] OTHER -> Step("openai", "ok", [edge EXCEPT !.pc = "save", !.content = c])
    /\ UNCHANGED ai_recommendations
    /\ EdgeUnchanged

\* insert into ai_recommendations (recommendations TEXT NOT NULL), then
\* the response.
saveRecommendations ==
    /\ edge.pc = "save"
    /\ \E ok \in BOOLEAN :
          LET recommendations == edge.content
          IN  IF ok /\ recommendations # NoContent
              THEN /\ ai_recommendations' =
                         Append(ai_recommendations, SavedRow(edge.user, recommendations))
                   /\ edge' = Step("insert", "ok", Responded(OkResponse(recommendations)))
              ELSE /\ edge' = Step("insert", "failed",
                                   Responded(ErrorResponse(500, "Failed to save recommendations")))
                   /\ UNCHANGED ai_recommendations
    /\ EdgeUnchanged

\* Number(t.amount): the amount column reaches the function as a JSON
\* number, which Number returns as it is.
Number(amount) == amount

\* x || 0 on a number
OrZero(x) == IF x = 0 THEN 0 ELSE x

\* filter(t => t.type === ty).reduce((sum, t) => sum + Number(t.amount), 0) || 0
RECURSIVE EdgeSum(_)
EdgeSum(s) == IF s = <<>> THEN 0 ELSE EdgeSum(SubSeq(s, 1, Len(s) - 1)) + Number(s[Len(s)].amount)

\* reduce((acc, t) => { acc[t.category] = (acc[t.category] || 0) + Number(t.amount); ... }, {})
RECURSIVE EdgeBreakdown(_)
EdgeBreakdown(s) ==
    IF s = <<>> THEN <<>>
    ELSE LET acc == EdgeBreakdown(SubSeq(s, 1, Len(s) - 1))
             t == s[Len(s)]
         IN  Put(acc, t.category, OrZero(GetOrZero(acc, t.category)) + Number(t.amount))

\* The financial summary the function puts into the prompt.
EdgeSummary(rows) ==
    LET totalIncome == OrZero(EdgeSum(FilterType(rows, "income")))
        totalExpenses == OrZero(EdgeSum(FilterType(rows, "expense")))
    IN  [totalIncome |-> totalIncome,
         totalExpenses |-> totalExpenses,
         balance |-> totalIncome - totalExpenses,
         expensesByCategory |-> EdgeBreakdown(FilterType(rows, "expense"))]

EdgeNext ==
    \/ serve
    \/ getUser
    \/ fetchProfile
    \/ fetchTransactions
    \/ callOpenAI
    \/ saveRecommendations

EdgeSpec == Init /\ [][EdgeNext]_vars

(***************************************************************************)
(* The Settings page: the display-name input with its debounced auto-save, *)
(* the Save button next to it, and the unmount of the page.  Strings are   *)
(* sequences of characters.                                                *)
(***************************************************************************)
\* The dashboard, the store and the edge function at rest.
ElsewhereIdle ==
    /\ store = <<>>
    /\ transactions = <<>>
    /\ activeTab = "income"
    /\ financialData = NULL
    /\ lastFetch = NoFetch
    /\ analysed = <<>>
    /\ debtStore = <<>>
    /\ debts = <<>>
    /\ requests = <<>>
    /\ isLoading = FALSE
    /\ user = "A"
    /\ userLoads = <<>>
    /\ authEvents = 0
    /\ tables = [t \in SecuredTables |-> {}]
    /\ lastOp = NoOp
    /\ edge = EdgeIdle
    /\ ai_recommendations = <<>>

ElsewhereUnchanged ==
    /\ UNCHANGED <<store, transactions, activeTab, financialData, lastFetch, analysed>>
    /\ UNCHANGED <<debtVars, loadVars, authVars, backendVars>>

SettingsUnchanged ==
    /\ ElsewhereUnchanged
    /\ UNCHANGED <<accountVars, passwordVars, chatVars>>

\* String.prototype.trim: white space removed from both ends.
RECURSIVE trim(_)
trim(s) ==
    IF s = <<>> THEN s
    ELSE IF Head(s) = " " THEN trim(Tail(s))
    ELSE IF s[Len(s)] = " " THEN trim(SubSeq(s, 1, Len(s) - 1))
    ELSE s

\* A clearTimeout that cancels nothing.
clearTimeoutOfNothing(pending, id) == pending

\* clearTimeout(id): the timer is not run; the id of a timer that has
\* fired, or NoTimeout, cancels nothing.
clearTimeout(pending, id) == {t \in pending : t.id # id}

\* setTimeout(callback, delay), the callback holding value in its closure.
setTimeout(id, value, delay) == [id |-> id, value |-> value, due |-> now + delay]

Event(kind, value) == [kind |-> kind, value |-> value, at |-> now, mounted |-> mounted]

\* Edits and Save clicks so far.
UserEvents == Cardinality({i \in DOMAIN events : events[i].kind \in {"edit", "click"}})

\* The page is mounted for the signed-in user; loadUserSettings has put the
\* display name of the profile, if any, into the form.
SettingsInit ==
    /\ ElsewhereIdle
    /\ toast = "none"
    /\ settings \in {[displayName |-> n] : n \in {<<>>, <<"a">>}}
    /\ displayNameTimeout = NoTimeout
    /\ timers = {}
    /\ now = 0
    /\ mounted = TRUE
    /\ saving = <<>>
    /\ events = <<>>
    /\ AccountIdle
    /\ PasswordIdle
    /\ ChatIdle

\* onChange of the display-name input: the value is put into the form, the
\* timer of the previous edit is cleared and a new one is set.
handleDisplayNameChange ==
    /\ mounted
    /\ UserEvents < MaxEdits
    /\ \E value \in DisplayNames \ {settings.displayName} :
          LET timeout == Len(events) + 1
              kept == IF displayNameTimeout # NoTimeout
                      THEN clearTimeout(timers, displayNameTimeout)
                      ELSE timers
          IN  /\ settings' = [settings EXCEPT !.displayName = value]
              /\ timers' = kept \cup {setTimeout(timeout, value, AutoSaveDelay)}
              /\ displayNameTimeout' = timeout
              /\ events' = Append(events, Event("edit", value))
    /\ UNCHANGED <<now, mounted, saving, toast>>
    /\ SettingsUnchanged

\* saveDisplayName up to its await: the upsert is sent.  (user is the one
\* of the render whose closure makes the call: the page shows the form
\* only to a signed-in user.)
saveDisplayName(displayName, origin) ==
    /\ saving' = Append(saving, displayName)
    /\ events' = Append(events, Event(origin, displayName))

\* A timer set by handleDisplayNameChange fires, at its due time or later.
AutoSaveTimeout ==
    /\ \E t \in timers :
          /\ now >= t.due
          /\ timers' = timers \ {t}
          /\ IF trim(t.value) # <<>>
             THEN saveDisplayName(t.value, "auto-save")
             ELSE UNCHANGED <<saving, events>>
    /\ UNCHANGED <<settings, displayNameTimeout, now, mounted, toast>>
    /\ SettingsUnchanged

\* The Save button next to the input (disabled while the trimmed value is
\* empty): saveDisplayName(settings.displayName), the timer left as it is.
SaveClick ==
    /\ mounted
    /\ UserEvents < MaxEdits
    /\ trim(settings.displayName) # <<>>
    /\ saveDisplayName(settings.displayName, "click")
    /\ UNCHANGED <<settings, displayNameTimeout, timers, now, mounted, toast>>
    /\ SettingsUnchanged

\* The upsert of a saveDisplayName is answered: on success the saved name
\* is put into the form (a state update of an unmounted component is
\* dropped), and a toast is shown either way.
saveDisplayNameAnswered ==
    /\ saving # <<>>
    /\ \E ok \in BOOLEAN :
          /\ settings' = IF ok /\ mounted
                         THEN [settings EXCEPT !.displayName = Head(saving)]
                         ELSE settings
          /\ toast' = IF ok THEN "Display name updated" ELSE "Error"
    /\ saving' = Tail(saving)
    /\ UNCHANGED <<displayNameTimeout, timers, now, mounted, events>>
    /\ SettingsUnchanged

\* The cleanup of the effect with the empty dependency list: it is the
\* closure of the first render, in which displayNameTimeout is null.
cleanup(pending) ==
    LET displayNameTimeoutOfFirstRender == NoTimeout
    IN  IF displayNameTimeoutOfFirstRender # NoTimeout
        THEN clearTimeout(pending, displayNameTimeoutOfFirstRender)
        ELSE pending

\* The user leaves the page: the component unmounts.
Unmount ==
    /\ mounted
    /\ mounted' = FALSE
    /\ timers' = cleanup(timers)
    /\ events' = Append(events, Event("unmount", <<>>))
    /\ UNCHANGED <<settings, displayNameTimeout, now, saving, toast>>
    /\ SettingsUnchanged

\* Time passes, by half the auto-save delay.
Tick ==
    /\ now < MaxTicks * (AutoSaveDelay \div 2)
    /\ now' = now + AutoSaveDelay \div 2
    /\ UNCHANGED <<settings, displayNameTimeout, timers, mounted, saving, events, toast>>
    /\ SettingsUnchanged

SettingsNext ==
    \/ handleDisplayNameChange
    \/ AutoSaveTimeout
    \/ SaveClick
    \/ saveDisplayNameAnswered
    \/ Unmount
    \/ Tick

SettingsSpec == SettingsInit /\ [][SettingsNext]_vars

(***************************************************************************)
(* The account of a user in the store: the profile rows written by the     *)
(* sign-up form, ProfileForm and the two saves of Settings, and            *)
(* deleteAccount.  Each handler runs from the click to its last toast.     *)
(***************************************************************************)
\* The columns of public.profiles: those of CREATE TABLE and those added
\* by update_profiles_table.sql.
ProfilesColumns ==
    {"id", "user_id", "age", "salary", "marital_status", "financial_goals",
     "created_at", "updated_at", "display_name", "currency", "language",
     "timezone", "privacy", "preferences"}

\* The policies declared for profiles: SELECT, INSERT and UPDATE, each
\* with (auth.uid() = user_id); no policy for DELETE, which row level
\* security then allows for no row.
profilesPolicy(cmd, uid, row) == cmd \in {"SELECT", "INSERT", "UPDATE"} /\ OwnRow(uid, row)

\* id UUID NOT NULL DEFAULT gen_random_uuid()
FreshProfileId == CHOOSE n \in 1..(MaxProfiles + 1) : \A r \in profiles : r.id # n

\* from('profiles').upsert(values) by a client with the session of uid:
\* INSERT ... ON CONFLICT (id) DO UPDATE, id being the primary key and the
\* only unique column.  A column the table does not have, or a row the
\* policies reject, is an error.
upsert(uid, values) ==
    LET id == IF "id" \in DOMAIN values THEN values.id ELSE FreshProfileId
        row == [id |-> id, user_id |-> values.user_id, values |-> values]
        conflicting == {r \in profiles : r.id = id}
    IN  IF ~(DOMAIN values \subseteq ProfilesColumns)
        THEN [error |-> TRUE, rows |-> profiles]
        ELSE IF conflicting = {}
        THEN IF profilesPolicy("INSERT", uid, row)
             THEN [error |-> FALSE, rows |-> profiles \cup {row}]
             ELSE [error |-> TRUE, rows |-> profiles]
        ELSE IF \A r \in conflicting : profilesPolicy("UPDATE", uid, r)
                /\ profilesPolicy("UPDATE", uid, row)
             THEN [error |-> FALSE, rows |-> (profiles \ conflicting) \cup {row}]
             ELSE [error |-> TRUE, rows |-> profiles]

\* The policies of the table allow the command of uid on the row.
allowed(table, cmd, uid, row) ==
    CASE table = "profiles" -> profilesPolicy(cmd, uid, row)
      [] table = "transactions" -> transactionsPolicy(cmd, uid, row)
      [] table = "debts" -> debtsPolicy(cmd, uid, row)

\* from(table).delete().eq('user_id', id) by a client with the session of
\* uid: the rows that remain.
deleteOf(table, rows, id, uid) ==
    {r \in rows : ~(/\ r.user_id = id
                    /\ allowed(table, "SELECT", uid, r)
                    /\ allowed(table, "DELETE", uid, r))}

AccountUnchanged ==
    /\ UNCHANGED <<store, transactions, activeTab, financialData, lastFetch, analysed>>
    /\ UNCHANGED <<debtVars, loadVars, userLoads, authEvents, lastOp, edgeVars, settingsVars,
                   passwordVars, chatVars>>

\* Nobody is signed in; the store holds transactions, debts and profiles
\* of earlier sessions.
AccountInit ==
    /\ store = <<>>
    /\ transactions = <<>>
    /\ activeTab = "income"
    /\ financialData = NULL
    /\ lastFetch = NoFetch
    /\ analysed = <<>>
    /\ toast = "none"
    /\ debtStore = <<>>
    /\ debts = <<>>
    /\ requests = <<>>
    /\ isLoading = FALSE
    /\ user = NoUser
    /\ userLoads = <<>>
    /\ authEvents = 0
    /\ \E txs \in SUBSET {TableRow(1, "A", 0), TableRow(2, "B", 0)},
          ds \in SUBSET {TableRow(3, "A", 0), TableRow(4, "B", 0)} :
          tables = [t \in SecuredTables |->
                       IF t = "transactions" THEN txs ELSE IF t = "debts" THEN ds ELSE {}]
    /\ lastOp = NoOp
    /\ edge = EdgeIdle
    /\ ai_recommendations = <<>>
    /\ SettingsIdle
    /\ PasswordIdle
    /\ ChatIdle
    /\ profiles = {}
    /\ account = NoInvocation

\* SignUpForm.handleSubmit with valid passwords: signUp, then, if it
\* succeeded and getUser returns the new user (a session was opened), the
\* upsert of the profile, whose outcome is not looked at.
SignUp ==
    /\ user = NoUser
    /\ Cardinality(profiles) < MaxProfiles
    /\ \E u \in Users, error, session \in BOOLEAN :
          LET values == [user_id |-> u, display_name |-> "ann", email |-> "ann@example.org",
                         created_at |-> "now", updated_at |-> "now"]
          IN  /\ user' = IF ~error /\ session THEN u ELSE user
              /\ profiles' = IF ~error /\ session THEN upsert(u, values).rows ELSE profiles
              /\ toast' = IF error THEN "Sign up failed" ELSE "Account created!"
    /\ UNCHANGED <<tables, account>>
    /\ AccountUnchanged

\* AuthContext.signIn succeeds.
signIn ==
    /\ user = NoUser
    /\ \E u \in Users : user' = u
    /\ UNCHANGED <<tables, profiles, account, toast>>
    /\ AccountUnchanged

\* The end of a handler that awaited an upsert: its toast.
Saved(result, title) ==
    /\ profiles' = result.rows
    /\ toast' = IF result.error THEN "Error" ELSE title

\* ProfileForm.handleSubmit of a signed-in user.
ProfileFormSubmit ==
    /\ user # NoUser
    /\ Cardinality(profiles) < MaxProfiles
    /\ Saved(upsert(user, [user_id |-> user, age |-> 30, salary |-> 5000,
                           marital_status |-> "single", financial_goals |-> <<"Travel">>]),
             "Profile saved!")
    /\ UNCHANGED <<user, tables, account>>
    /\ AccountUnchanged

\* Settings.saveSettings
saveSettings ==
    /\ user # NoUser
    /\ Cardinality(profiles) < MaxProfiles
    /\ Saved(upsert(user, [user_id |-> user, display_name |-> "ann", currency |-> "USD",
                           language |-> "en", timezone |-> "UTC", updated_at |-> "now"]),
             "Settings saved")
    /\ UNCHANGED <<user, tables, account>>
    /\ AccountUnchanged

\* Settings.saveDisplayName, with its upsert.
saveDisplayNameUpsert ==
    /\ user # NoUser
    /\ Cardinality(profiles) < MaxProfiles
    /\ Saved(upsert(user, [user_id |-> user, display_name |-> "ann", updated_at |-> "now"]),
             "Display name updated")
    /\ UNCHANGED <<user, tables, account>>
    /\ AccountUnchanged

\* Settings.deleteAccount: the two dialogs, the three deletes, whose
\* errors are logged only, signOut, which leaves the session in place when
\* it fails, and the toast.
deleteAccount ==
    /\ user # NoUser
    /\ \E firstConfirm, secondConfirm, profileError, transactionsError, debtsError,
          signedOut \in BOOLEAN :
          /\ ~firstConfirm => ~secondConfirm
          /\ account' = [user |-> user, firstConfirm |-> firstConfirm,
                         secondConfirm |-> secondConfirm]
          /\ IF firstConfirm /\ secondConfirm
             THEN /\ profiles' = IF profileError THEN profiles
                                 ELSE deleteOf("profiles", profiles, user, user)
                  /\ tables' =
                       [tables EXCEPT
                          !["transactions"] =
                              IF transactionsError THEN @
                              ELSE deleteOf("transactions", @, user, user),
                          !["debts"] =
                              IF debtsError THEN @ ELSE deleteOf("debts", @, user, user)]
                  /\ user' = IF signedOut THEN NoUser ELSE user
                  /\ toast' = "Account deletion initiated"
             ELSE UNCHANGED <<profiles, tables, user, toast>>
    /\ AccountUnchanged

AccountNext ==
    \/ SignUp
    \/ signIn
    \/ ProfileFormSubmit
    \/ saveSettings
    \/ saveDisplayNameUpsert
    \/ deleteAccount

AccountSpec == AccountInit /\ [][AccountNext]_vars

(***************************************************************************)
(* The two handlers that set a password: SignUpForm.handleSubmit and       *)
(* Settings.updatePassword, each up to its request to the authentication   *)
(* backend and from the answer on.                                         *)
(***************************************************************************)
PasswordUnchanged ==
    /\ ElsewhereUnchanged
    /\ UNCHANGED <<settingsVars, accountVars, chatVars>>

NoError == "null"

\* A check that lets passwords of MinPasswordLength - 1 characters pass.
validatePasswordOneShorter(password) ==
    IF Len(password) < MinPasswordLength - 1
    THEN "Password must be at least 6 characters long"
    ELSE NoError

\* SignUpForm.validatePassword
validatePassword(password) ==
    IF Len(password) < MinPasswordLength
    THEN "Password must be at least 6 characters long"
    ELSE NoError

\* A handler returns after its toast, or stays at its await.
Finished(f, password, confirmPassword, title) ==
    /\ submitted' = [submitted EXCEPT ![f] =
          [password |-> password, confirmPassword |-> confirmPassword,
           phase |-> "finished", toast |-> title]]
    /\ toast' = title

Awaiting(f, op, password, confirmPassword) ==
    /\ submitted' = [submitted EXCEPT ![f] =
          [password |-> password, confirmPassword |-> confirmPassword,
           phase |-> "awaiting", toast |-> "none"]]
    /\ authRequests' = Append(authRequests,
          [op |-> op, password |-> password, confirmPassword |-> confirmPassword])
    /\ isLoadingOf' = [isLoadingOf EXCEPT ![f] = TRUE]
    /\ UNCHANGED toast

\* SignUpForm.handleSubmit up to the await of signUp: setIsLoading(true),
\* the two checks, each returning through finally, which sets isLoading
\* back.  (The submit button is disabled while isLoading.)
SignUpFormSubmit ==
    /\ ~isLoadingOf["SignUpForm"]
    /\ Len(authRequests) < MaxAuthRequests
    /\ \E password, confirmPassword \in Passwords :
          IF password # confirmPassword
          THEN /\ Finished("SignUpForm", password, confirmPassword, "Passwords don't match")
               /\ UNCHANGED <<authRequests, isLoadingOf>>
          ELSE IF validatePassword(password) # NoError
          THEN /\ Finished("SignUpForm", password, confirmPassword, "Invalid password")
               /\ UNCHANGED <<authRequests, isLoadingOf>>
          ELSE Awaiting("SignUpForm", "signUp", password, confirmPassword)
    /\ PasswordUnchanged

\* signUp is answered: the toast, and finally setIsLoading(false).
SignUpFormAnswered ==
    /\ submitted["SignUpForm"].phase = "awaiting"
    /\ \E error \in BOOLEAN :
          Finished("SignUpForm", submitted["SignUpForm"].password,
                   submitted["SignUpForm"].confirmPassword,
                   IF error THEN "Sign up failed" ELSE "Account created!")
    /\ isLoadingOf' = [isLoadingOf EXCEPT !["SignUpForm"] = FALSE]
    /\ UNCHANGED authRequests
    /\ PasswordUnchanged

\* Settings.updatePassword up to the await of updateUser.  (The button is
\* disabled while isLoading or while either field is empty, and the page
\* shows the form to a signed-in user only.)
updatePassword ==
    /\ user # NoUser
    /\ ~isLoadingOf["Settings"]
    /\ Len(authRequests) < MaxAuthRequests
    /\ \E newPassword, confirmPassword \in Passwords :
          IF newPassword # confirmPassword
          THEN /\ Finished("Settings", newPassword, confirmPassword, "Error")
               /\ UNCHANGED <<authRequests, isLoadingOf>>
          ELSE IF Len(newPassword) < MinPasswordLength
          THEN /\ Finished("Settings", newPassword, confirmPassword, "Error")
               /\ UNCHANGED <<authRequests, isLoadingOf>>
          ELSE Awaiting("Settings", "updateUser", newPassword, confirmPassword)
    /\ PasswordUnchanged

\* updateUser is answered: the toast, and finally setIsLoading(false).
updatePasswordAnswered ==
    /\ submitted["Settings"].phase = "awaiting"
    /\ \E error \in BOOLEAN :
          Finished("Settings", submitted["Settings"].password,
                   submitted["Settings"].confirmPassword,
                   IF error THEN "Error" ELSE "Password updated")
    /\ isLoadingOf' = [isLoadingOf EXCEPT !["Settings"] = FALSE]
    /\ UNCHANGED authRequests
    /\ PasswordUnchanged

PasswordInit ==
    /\ ElsewhereIdle
    /\ toast = "none"
    /\ OtherPagesInit

PasswordNext ==
    \/ SignUpFormSubmit
    \/ SignUpFormAnswered
    \/ updatePassword
    \/ updatePasswordAnswered

PasswordSpec == PasswordInit /\ [][PasswordNext]_vars

(***************************************************************************)
(* A session of the dashboard with its requests in flight: every call of   *)
(* loadUserData, handleAddTransaction and handleDeleteTransaction is sent, *)
(* executed by the store and resumed in the browser in three steps, and    *)
(* the requests are executed and answered in any order.  requests keeps    *)
(* the finished calls as well, and the calls that returned before sending  *)
(* anything; ids are never used twice.                                     *)
(***************************************************************************)
SessionUnchanged ==
    /\ UNCHANGED <<activeTab, financialData, lastFetch, analysed>>
    /\ UNCHANGED <<debtVars, userLoads, backendVars, otherPages>>

\* A call that has reached its await.
Call(kind, row, id) ==
    [kind |-> kind, phase |-> "sent", row |-> row, id |-> id, ok |-> TRUE, rows |-> <<>>]

NoRow == Row(0, "none", 0, "none")

\* A call that returned at its check of user.
Returned(kind, id) == [Call(kind, NoRow, id) EXCEPT !.phase = "returned"]

\* The user is signed in and the load of the mount has completed.
SessionInit ==
    /\ store \in {<<>>, <<Row(1, "expense", 1200, "Other")>>}
    /\ transactions = Reverse(store)
    /\ activeTab = "income"
    /\ financialData = NULL
    /\ lastFetch = NoFetch
    /\ analysed = <<>>
    /\ toast = "none"
    /\ debtStore = <<>>
    /\ debts = <<>>
    /\ requests = <<>>
    /\ isLoading = FALSE
    /\ user = "A"
    /\ userLoads = <<>>
    /\ authEvents = 0
    /\ tables = [t \in SecuredTables |-> {}]
    /\ lastOp = NoOp
    /\ edge = EdgeIdle
    /\ ai_recommendations = <<>>
    /\ OtherPagesInit

\* AuthProvider: onAuthStateChange fires (sign-in, token refresh, return
\* to the tab, sign-out, expiry): setUser(session?.user ?? null) with the
\* user object of the event; the effect on [user] then runs loadUserData
\* up to its first await if there is a user.
AuthStateChanges ==
    /\ authEvents < MaxAuthEvents
    /\ authEvents' = authEvents + 1
    /\ \E u \in {"A", NoUser} :
          /\ user' = u
          /\ IF u # NoUser
             THEN /\ Len(requests) < MaxRequests
                  /\ isLoading' = TRUE
                  /\ requests' = Append(requests, Call("load", NoRow, 0))
             ELSE UNCHANGED <<requests, isLoading>>
    /\ UNCHANGED <<store, transactions, toast>>
    /\ SessionUnchanged

\* handleAddTransaction up to its await, from one of the tab forms (which
\* are rendered while isLoading is false).
AddTransactionRequest ==
    /\ ~isLoading
    /\ Len(requests) < MaxRequests
    /\ IF user = NoUser
       THEN /\ toast' = "Authentication required"
            /\ requests' = Append(requests, Returned("add", 0))
       ELSE /\ \E amount \in {800, 5000} :
                  requests' = Append(requests, Call("add", Row(0, "income", amount, "Salary"), 0))
            /\ UNCHANGED toast
    /\ UNCHANGED <<store, transactions, user, authEvents, isLoading>>
    /\ SessionUnchanged

\* handleDeleteTransaction(id) up to its await, from the delete button of
\* a listed entry.
DeleteTransactionRequest ==
    /\ ~isLoading
    /\ Len(requests) < MaxRequests
    /\ \E i \in DOMAIN transactions :
          requests' = Append(requests,
                             IF user = NoUser THEN Returned("delete", transactions[i].id)
                             ELSE Call("delete", NoRow, transactions[i].id))
    /\ UNCHANGED <<store, transactions, toast, user, authEvents, isLoading>>
    /\ SessionUnchanged

\* The id the store gives to the next inserted row.
NextId == 2 + Cardinality({i \in DOMAIN requests :
                              requests[i].kind = "add" /\ requests[i].phase # "sent"})

\* The store executes a call: the insert with select().single(), the
\* delete by id, or the select ordered by created_at descending.
StoreExecutes ==
    /\ \E i \in DOMAIN requests, ok \in BOOLEAN :
          LET call == requests[i]
              data == [call.row EXCEPT !.id = NextId]
          IN  /\ call.phase = "sent"
              /\ store' =
                    CASE ok /\ call.kind = "add" -> Append(store, data)
                      [] ok /\ call.kind = "delete" ->
                           SelectSeq(store, LAMBDA t : t.id # call.id)
                      [] OTHER -> store
              /\ requests' = [requests EXCEPT ![i] =
                    [call EXCEPT !.phase = "answered", !.ok = ok,
                                 !.row = IF call.kind = "add" THEN data ELSE call.row,
                                 !.rows = IF ok /\ call.kind = "load"
                                          THEN Reverse(store) ELSE <<>>]]
    /\ UNCHANGED <<transactions, toast, user, authEvents, isLoading>>
    /\ SessionUnchanged

\* The handler of call i resumes with the answer and runs to its end.
HandlerResumes(i) ==
    /\ requests[i].phase = "answered"
    /\ LET call == requests[i]
       IN  /\ requests' = [requests EXCEPT ![i] = [call EXCEPT !.phase = "done"]]
           /\ CASE call.kind = "add" ->
                     /\ transactions' = IF call.ok THEN <<call.row>> \o transactions
                                        ELSE transactions
                     /\ toast' = IF call.ok THEN "Transaction saved!"
                                 ELSE "Error saving transaction"
                     /\ UNCHANGED isLoading
                [] call.kind = "delete" ->
                     /\ transactions' =
                           IF call.ok THEN SelectSeq(transactions, LAMBDA t : t.id # call.id)
                           ELSE transactions
                     /\ toast' = IF call.ok THEN "Transaction removed!"
                                 ELSE "Error removing transaction"
                     /\ UNCHANGED isLoading
                [] OTHER ->
                     /\ transactions' = IF call.ok THEN call.rows ELSE transactions
                     /\ toast' = IF call.ok THEN toast ELSE "Error loading data"
                     /\ isLoading' = FALSE
    /\ UNCHANGED <<store, user, authEvents>>
    /\ SessionUnchanged

\* An answer arrives in the browser.
AnswerArrives == \E i \in DOMAIN requests : HandlerResumes(i)

SessionNext ==
    \/ AuthStateChanges
    \/ AddTransactionRequest
    \/ DeleteTransactionRequest
    \/ StoreExecutes
    \/ AnswerArrives

SessionSpec == SessionInit /\ [][SessionNext]_vars

(***************************************************************************)
(* The Debt tab with its requests in flight: handleAddDebt and             *)
(* handleDeleteDebt(index) are sent, executed by the store and resumed in  *)
(* the browser in three steps, in any order.                               *)
(***************************************************************************)
DebtRaceUnchanged ==
    /\ UNCHANGED <<store, transactions, activeTab, financialData, lastFetch, analysed>>
    /\ UNCHANGED <<isLoading, authVars, backendVars, otherPages>>

\* A call of one of the two handlers that has reached its await;
\* handleDeleteDebt holds index and the id of debts[index] in its closure.
DebtCall(kind, row, index, id) ==
    [kind |-> kind, phase |-> "sent", row |-> row, index |-> index, id |-> id, ok |-> TRUE]

\* The user is signed in and the load of the mount has brought the debts.
DebtRaceInit ==
    /\ store = <<>>
    /\ transactions = <<>>
    /\ activeTab = "debt"
    /\ financialData = NULL
    /\ lastFetch = NoFetch
    /\ analysed = <<>>
    /\ toast = "none"
    /\ debtStore \in {<<DebtRow(1, 1000, 50)>>, <<DebtRow(1, 1000, 50), DebtRow(2, 1000, 800)>>}
    /\ debts = Reverse(debtStore)
    /\ requests = <<>>
    /\ isLoading = FALSE
    /\ user = "A"
    /\ userLoads = <<>>
    /\ authEvents = 0
    /\ tables = [t \in SecuredTables |-> {}]
    /\ lastOp = NoOp
    /\ edge = EdgeIdle
    /\ ai_recommendations = <<>>
    /\ OtherPagesInit

\* handleAddDebt up to its await, from the Add Debt form.
AddDebtRequest ==
    /\ Len(requests) < MaxRequests
    /\ requests' = Append(requests, DebtCall("add", DebtRow(0, 1000, 50), 0, 0))
    /\ UNCHANGED <<debtStore, debts, toast>>
    /\ DebtRaceUnchanged

\* handleDeleteDebt(index) up to its await, from the Remove button of the
\* entry listed at index.
DeleteDebtRequest ==
    /\ Len(requests) < MaxRequests
    /\ \E index \in DOMAIN debts :
          LET debtToDelete == debts[index]
          IN  requests' = Append(requests, DebtCall("delete", debtToDelete, index, debtToDelete.id))
    /\ UNCHANGED <<debtStore, debts, toast>>
    /\ DebtRaceUnchanged

\* The id the store gives to the next inserted debt.
NextDebtId == 3 + Cardinality({i \in DOMAIN requests :
                                  requests[i].kind = "add" /\ requests[i].phase # "sent"})

\* The store executes a call: the insert with select().single() or the
\* delete by id.
DebtStoreExecutes ==
    /\ \E i \in DOMAIN requests, ok \in BOOLEAN :
          LET call == requests[i]
              data == [call.row EXCEPT !.id = NextDebtId]
          IN  /\ call.phase = "sent"
              /\ debtStore' =
                    CASE ok /\ call.kind = "add" -> Append(debtStore, data)
                      [] ok /\ call.kind = "delete" ->
                           SelectSeq(debtStore, LAMBDA d : d.id # call.id)
                      [] OTHER -> debtStore
              /\ requests' = [requests EXCEPT ![i] =
                    [call EXCEPT !.phase = "answered", !.ok = ok,
                                 !.row = IF call.kind = "add" THEN data ELSE call.row]]
    /\ UNCHANGED <<debts, toast>>
    /\ DebtRaceUnchanged

\* The handler of call i resumes with the answer and runs to its end:
\* setDebts(prev => [newDebt, ...prev]) or
\* setDebts(prev => prev.filter((_, i) => i !== index)).
DebtHandlerResumes(i) ==
    /\ requests[i].phase = "answered"
    /\ LET call == requests[i]
       IN  /\ requests' = [requests EXCEPT ![i] = [call EXCEPT !.phase = "done"]]
           /\ IF call.kind = "add"
              THEN /\ debts' = IF call.ok THEN <<call.row>> \o debts ELSE debts
                   /\ toast' = IF call.ok THEN "Debt saved!" ELSE "Error saving debt"
              ELSE /\ debts' = IF call.ok THEN FilterIndex(debts, call.index) ELSE debts
                   /\ toast' = IF call.ok THEN "Debt removed!" ELSE "Error removing debt"
    /\ UNCHANGED debtStore
    /\ DebtRaceUnchanged

\* An answer arrives in the browser.
DebtAnswerArrives == \E i \in DOMAIN requests : DebtHandlerResumes(i)

DebtRaceNext ==
    \/ AddDebtRequest
    \/ DeleteDebtRequest
    \/ DebtStoreExecutes
    \/ DebtAnswerArrives

DebtRaceSpec == DebtRaceInit /\ [][DebtRaceNext]_vars

(***************************************************************************)
(* ProfileChat: the input, the Send button, the timers that add the bot    *)
(* messages and the Complete button.                                       *)
(***************************************************************************)
ChatUnchanged ==
    /\ ElsewhereUnchanged
    /\ UNCHANGED <<settingsVars, accountVars, passwordVars>>

\* The user messages so far.
Sends == Cardinality({i \in DOMAIN messages : messages[i].type = "user"})

\* onChange of the input, or onValueChange of the select.
setCurrentInput ==
    /\ ~isComplete
    /\ \E value \in ChatInputs :
          /\ value # currentInput
          /\ currentInput' = value
    /\ UNCHANGED <<messages, currentQuestionIndex, profileData, isComplete, chatTimers,
                   hasProfile, toast>>
    /\ ChatUnchanged

\* { ...prev, [id]: value }
WithField(data, id, value) ==
    [k \in DOMAIN data \cup {id} |-> IF k = id THEN value ELSE data[k]]

\* handleSend: the Send button (disabled while the input is blank) or the
\* Enter key; the input area is rendered while isComplete is false.
handleSend ==
    /\ ~isComplete
    /\ trim(currentInput) # <<>>
    /\ Sends < MaxSends
    /\ Len(chatTimers) <= MaxPending
    /\ LET currentQuestion == questions[currentQuestionIndex + 1]
           userResponse == trim(currentInput)
       IN  /\ messages' = Append(messages, Message("user", userResponse))
           /\ profileData' = WithField(profileData, currentQuestion.id, userResponse)
           /\ currentInput' = <<>>
           /\ IF currentQuestionIndex < Len(questions) - 1
              THEN /\ currentQuestionIndex' = currentQuestionIndex + 1
                   /\ chatTimers' = Append(chatTimers,
                         [content |-> questions[currentQuestionIndex + 2].question,
                          complete |-> FALSE])
              ELSE /\ UNCHANGED currentQuestionIndex
                   /\ chatTimers' = Append(chatTimers, [content |-> Perfect, complete |-> TRUE])
    /\ UNCHANGED <<isComplete, hasProfile, toast>>
    /\ ChatUnchanged

\* The oldest timer fires after its 500 ms: the bot message is added and,
\* for the completion, isComplete is set.
ChatTimeout ==
    /\ chatTimers # <<>>
    /\ LET callback == Head(chatTimers)
       IN  /\ messages' = Append(messages, Message("bot", callback.content))
           /\ isComplete' = (isComplete \/ callback.complete)
    /\ chatTimers' = Tail(chatTimers)
    /\ UNCHANGED <<currentQuestionIndex, currentInput, profileData, hasProfile, toast>>
    /\ ChatUnchanged

\* handleComplete: the Complete Profile Setup button; onComplete is
\* handleProfileComplete of BudgetDashboard.
handleComplete ==
    /\ isComplete
    /\ IF Cardinality(DOMAIN profileData) = Len(questions)
       THEN /\ hasProfile' = TRUE
            /\ toast' = "Profile Complete!"
       ELSE UNCHANGED <<hasProfile, toast>>
    /\ UNCHANGED <<messages, currentQuestionIndex, currentInput, profileData, isComplete,
                   chatTimers>>
    /\ ChatUnchanged

ChatInit ==
    /\ ElsewhereIdle
    /\ toast = "none"
    /\ OtherPagesInit

ChatNext ==
    \/ setCurrentInput
    \/ handleSend
    \/ ChatTimeout
    \/ handleComplete

ChatSpec == ChatInit /\ [][ChatNext]_vars

(***************************************************************************)
(* Reference quantities the properties compare the code's results with,    *)
(* defined on the rows themselves (index sets), not through the folds of   *)
(* the code.                                                               *)
(***************************************************************************)
RECURSIVE SumOver(_, _)
SumOver(s, I) ==
    IF I = {} THEN 0
    ELSE LET i == CHOOSE j \in I : TRUE
         IN  s[i].amount + SumOver(s, I \ {i})

IncomeRows(s) == {i \in DOMAIN s : s[i].type = "income"}
ExpenseRows(s) == {i \in DOMAIN s : s[i].type = "expense"}
ExpenseRowsOf(s, c) == {i \in ExpenseRows(s) : s[i].category = c}
ExpenseCategoriesOf(s) == {s[i].category : i \in ExpenseRows(s)}

HasSnapshot == financialData.kind = "snapshot"

\* balance = income - expenses over the two disjoint, exhaustive classes.
TotalsExact(t, rows) ==
    /\ t.totalIncome = SumOver(rows, IncomeRows(rows))
    /\ t.totalExpenses = SumOver(rows, ExpenseRows(rows))
    /\ t.balance = t.totalIncome - t.totalExpenses
    /\ IncomeRows(rows) \cup ExpenseRows(rows) = DOMAIN rows
    /\ IncomeRows(rows) \cap ExpenseRows(rows) = {}
    /\ t.totalIncome + t.totalExpenses = SumOver(rows, DOMAIN rows)

\* C1: for every transaction list, balance = total_income - total_expenses,
\* total_income being the sum of the amounts of the 'income' records and
\* total_expenses the sum of the amounts of the 'expense' records, every
\* record counted in exactly one of the two totals; both in the dashboard
\* totals and in the AIRecommendations snapshot.
C1_BalanceIsIncomeMinusExpenses ==
    /\ TotalsExact(Totals(transactions), transactions)
    /\ HasSnapshot => TotalsExact(financialData, analysed)

\* A snapshot and dashboard totals of three rows of both types.
C1_Witness ==
    /\ HasSnapshot
    /\ Len(analysed) = 3
    /\ IncomeRows(analysed) # {}
    /\ ExpenseRows(analysed) # {}
    /\ financialData.balance # 0
    /\ Len(transactions) = 3

\* C2: for every list the forms can produce, total_income and
\* total_expenses are non-negative.
C2_TotalsNonNegative ==
    /\ Totals(transactions).totalIncome >= 0
    /\ Totals(transactions).totalExpenses >= 0
    /\ HasSnapshot =>
          financialData.totalIncome >= 0 /\ financialData.totalExpenses >= 0

\* C3: savings_rate is 0 whenever total_income is 0, in the snapshot and in
\* the dashboard's AI Financial Summary card (no division by a zero income).
C3_ZeroIncomeGivesZeroRate ==
    /\ (HasSnapshot /\ financialData.totalIncome = 0)
          => financialData.savingsRate = Rat(0, 1)
    /\ (SummaryCardShown(transactions) /\ Totals(transactions).totalIncome = 0)
          => SummarySavingsRate(transactions) = Rat(0, 1)

\* C4: for an empty transaction list the snapshot is all zero with an empty
\* breakdown; in particular once the analysis has been run successfully on
\* an empty store, AIRecommendations holds that snapshot.
C4_EmptyListGivesZeroSnapshot ==
    (/\ activeTab = "ai-insights"
     /\ toast = "Financial Analysis Complete!"
     /\ lastFetch = [status |-> "ok", rows |-> <<>>])
        => /\ HasSnapshot
           /\ financialData.totalIncome = 0
           /\ financialData.totalExpenses = 0
           /\ financialData.balance = 0
           /\ financialData.savingsRate = Rat(0, 1)
           /\ financialData.expenseBreakdown = <<>>

\* Each category of an expense row has one entry, holding the sum of the
\* expense rows of that category; nothing else has an entry.
BreakdownExact(obj, rows) ==
    /\ {obj[i].category : i \in DOMAIN obj} = ExpenseCategoriesOf(rows)
    /\ \A i, j \in DOMAIN obj : obj[i].category = obj[j].category => i = j
    /\ \A i \in DOMAIN obj :
          obj[i].amount = SumOver(rows, ExpenseRowsOf(rows, obj[i].category))

CategorySum(rows, c) == SumOver(rows, ExpenseRowsOf(rows, c))

\* The categories whose summed expenses are maximal.
MaxCategories(rows) ==
    {c \in ExpenseCategoriesOf(rows) :
        \A d \in ExpenseCategoriesOf(rows) : CategorySum(rows, d) <= CategorySum(rows, c)}

\* Where the category is first encountered in the input.
FirstRow(rows, c) ==
    CHOOSE i \in ExpenseRowsOf(rows, c) : \A j \in ExpenseRowsOf(rows, c) : i <= j

\* C6 as stated: dominant_category has a maximal summed amount, and among
\* the categories tied for the maximum it is the first encountered in input
\* order.
C6_TopIsFirstOfTheMaximal ==
    (HasSnapshot /\ ExpenseRows(analysed) # {}) =>
        /\ financialData.topExpenseCategory \in MaxCategories(analysed)
        /\ \A c \in MaxCategories(analysed) :
              FirstRow(analysed, financialData.topExpenseCategory) <= FirstRow(analysed, c)

\* C6 as amended: dominant_category has a maximal summed amount, which is
\* dominant_category_amount, and among the categories tied for the maximum
\* it is the one encountered last in input order (the tied category whose
\* first record comes latest).
C6_TopIsLastOfTheMaximal ==
    (HasSnapshot /\ ExpenseRows(analysed) # {}) =>
        /\ financialData.topExpenseCategory \in MaxCategories(analysed)
        /\ financialData.biggestExpense =
              CategorySum(analysed, financialData.topExpenseCategory)
        /\ \A c \in MaxCategories(analysed) :
              FirstRow(analysed, financialData.topExpenseCategory) >= FirstRow(analysed, c)

\* A snapshot of rows in which two categories tie for the maximum.
C6_Witness ==
    /\ HasSnapshot
    /\ Cardinality(MaxCategories(analysed)) >= 2
    /\ Cardinality(ExpenseCategoriesOf(analysed)) = 3

Undefined == "undefined"

\* C7 as stated: with no expense record dominant_category is undefined, no
\* category name is reported.
C7_NoExpenseTopUndefined ==
    (HasSnapshot /\ ExpenseRows(analysed) = {}) =>
        financialData.topExpenseCategory = Undefined

\* C7 as amended: with no expense record (and at least one income record)
\* the snapshot's dominant_category is the placeholder 'Other' with amount
\* 0 and an empty breakdown, and the tips do not name it.
C7_NoExpenseTopIsOther ==
    (HasSnapshot /\ ExpenseRows(analysed) = {}) =>
        /\ financialData.expenseBreakdown = <<>>
        /\ financialData.topExpenseCategory = "Other"
        /\ financialData.biggestExpense = 0
        /\ \A i \in DOMAIN getPersonalizedTips(financialData) :
              getPersonalizedTips(financialData)[i] # OptimizeBiggest

\* A snapshot of income rows only.
C7_Witness ==
    /\ HasSnapshot
    /\ ExpenseRows(analysed) = {}
    /\ Len(analysed) >= 2

AsMapping(obj) == {<<obj[i].category, obj[i].amount>> : i \in DOMAIN obj}

SameAggregates(a, b) ==
    /\ a.totalIncome = b.totalIncome
    /\ a.totalExpenses = b.totalExpenses
    /\ a.balance = b.balance
    /\ a.savingsRate = b.savingsRate
    /\ AsMapping(a.expenseBreakdown) = AsMapping(b.expenseBreakdown)
    /\ Len(a.expenseBreakdown) = Len(b.expenseBreakdown)

Content(rows) == {<<rows[i].type, rows[i].amount, rows[i].category>> : i \in DOMAIN rows}

\* Income 5000, expenses 1200 (Food & Dining) and 800 (Shopping).
Scenario(rows) ==
    /\ Len(rows) = 3
    /\ Content(rows) = {<<"income", 5000, "Salary">>,
                        <<"expense", 1200, "Food & Dining">>,
                        <<"expense", 800, "Shopping">>}

\* C9 as stated: with total_income > 0, savings_rate = balance /
\* total_income as a fraction; the scenario yields 5000, 2000, 3000, 0.6
\* and 'Food & Dining'.
C9_RateIsFraction ==
    HasSnapshot =>
        /\ financialData.totalIncome > 0 =>
              financialData.savingsRate = Rat(financialData.balance, financialData.totalIncome)
        /\ Scenario(analysed) => financialData.savingsRate = Rat(6, 10)

\* C9 as amended: with total_income > 0, savings_rate = 100 * balance /
\* total_income, a percentage; the scenario yields 5000, 2000, 3000, 60
\* and 'Food & Dining'.
C9_RateIsPercentage ==
    HasSnapshot =>
        /\ financialData.totalIncome > 0 =>
              /\ financialData.savingsRate.kind = "finite"
              /\ financialData.savingsRate.num * financialData.totalIncome
                    = 100 * financialData.balance * financialData.savingsRate.den
        /\ Scenario(analysed) =>
              /\ financialData.totalIncome = 5000
              /\ financialData.totalExpenses = 2000
              /\ financialData.balance = 3000
              /\ financialData.savingsRate = Rat(60, 1)
              /\ financialData.topExpenseCategory = "Food & Dining"

C9_Witness == HasSnapshot /\ Scenario(analysed)

RuleTips == {BoostSavings, OptimizeBiggest, AddressOverspending}

Occurrences(tips, t) == Cardinality({i \in DOMAIN tips : tips[i] = t})

FiredRules(data) ==
    {t \in RuleTips : Occurrences(getPersonalizedTips(data), t) > 0}

\* The three rules stated on the rows: the rate is 0 without a positive
\* income, and the dominant amount is 0 without an expense.
RateBelowTwentyPercent(rows) ==
    LET income == SumOver(rows, IncomeRows(rows))
        expenses == SumOver(rows, ExpenseRows(rows))
    IN  income > 0 => 100 * (income - expenses) < 20 * income

DominantAboveFortyPercent(rows) ==
    LET expenses == SumOver(rows, ExpenseRows(rows))
        dominant == IF ExpenseRows(rows) = {} THEN 0
                    ELSE CategorySum(rows, CHOOSE c \in MaxCategories(rows) : TRUE)
    IN  10 * dominant > 4 * expenses

Overspent(rows) == SumOver(rows, IncomeRows(rows)) < SumOver(rows, ExpenseRows(rows))

\* Every list of at most MaxTx rows that the forms can produce.
FormRows ==
    {Row(0, "income", a, c) : a \in IncomeAmounts \ {0}, c \in IncomeCategories}
        \cup {Row(0, "expense", a, c) : a \in ExpenseAmounts \ {0}, c \in ExpenseCategories}

AllRowLists == UNION {[1..n -> FormRows] : n \in 1..MaxTx}

ReturnedSubsets == {FiredRules(ComputeSnapshot(rows)) : rows \in AllRowLists}

\* The tips hold each rule's recommendation once if the rule fires and not
\* at all otherwise.
TipsAreTheFiringRules ==
    HasSnapshot =>
        LET tips == getPersonalizedTips(financialData)
        IN  /\ Occurrences(tips, BoostSavings)
                  = IF RateBelowTwentyPercent(analysed) THEN 1 ELSE 0
            /\ Occurrences(tips, OptimizeBiggest)
                  = IF DominantAboveFortyPercent(analysed) THEN 1 ELSE 0
            /\ Occurrences(tips, AddressOverspending)
                  = IF Overspent(analysed) THEN 1 ELSE 0

\* C10 as stated: exactly the recommendations whose rule fires are
\* returned, each once (savings rate below 20%, dominant amount above 40%
\* of the expenses, balance below 0), and any subset of the three can be
\* returned together.
C10_AnySubsetOfTheRules ==
    /\ TipsAreTheFiringRules
    /\ \A S \in SUBSET RuleTips : S \in ReturnedSubsets

\* C10 as amended: exactly the recommendations whose rule fires are
\* returned, each once; the rules are evaluated independently, but a
\* balance below 0 puts the savings rate below 20%, so the overspending
\* recommendation never comes without the increase-savings one: the
\* subsets returned are the six that respect this.
C10_TipsAreTheFiringRules ==
    /\ TipsAreTheFiringRules
    /\ HasSnapshot =>
          (AddressOverspending \in FiredRules(financialData)
              => BoostSavings \in FiredRules(financialData))
    /\ ReturnedSubsets =
          {S \in SUBSET RuleTips : AddressOverspending \in S => BoostSavings \in S}

\* All three rules fire on the rows analysed.
C10_Witness ==
    /\ HasSnapshot
    /\ getPersonalizedTips(financialData)
          = <<BoostSavings, OptimizeBiggest, AddressOverspending>>
    /\ financialData.totalIncome > 0

(***************************************************************************)
(* C11, C12: the order of the tips and the closing tip.                    *)
(***************************************************************************)
\* C11 as stated: whenever the balance is below 0 the overspending
\* recommendation is returned and is the first entry of the list, ahead of
\* every other recommendation that fired.
C11_OverspendingFirst ==
    (HasSnapshot /\ financialData.balance < 0) =>
        LET tips == getPersonalizedTips(financialData)
        IN  /\ Occurrences(tips, AddressOverspending) = 1
            /\ tips[1] = AddressOverspending

\* C11 as amended: whenever the balance is below 0 the overspending
\* recommendation is returned once and is the last entry of the list: the
\* increase-savings recommendation, which a balance below 0 always fires,
\* is the first entry, and the optimize-category one, if it fired, stands
\* between the two.
C11_OverspendingLast ==
    (HasSnapshot /\ financialData.balance < 0) =>
        LET tips == getPersonalizedTips(financialData)
        IN  /\ Occurrences(tips, AddressOverspending) = 1
            /\ tips[Len(tips)] = AddressOverspending
            /\ tips[1] = BoostSavings
            /\ Len(tips) \in {2, 3}
            /\ Len(tips) = 3 => tips[2] = OptimizeBiggest

\* A snapshot with a balance below 0 on which all three rules fire.
C11_Witness ==
    /\ HasSnapshot
    /\ financialData.balance < 0
    /\ Len(getPersonalizedTips(financialData)) = 3

\* C12: at least one recommendation is always returned; the "well
\* balanced" recommendation is returned if and only if none of the three
\* rules holds of the rows analysed, and it is then the only entry.
C12_FallbackIffNoRule ==
    HasSnapshot =>
        LET tips == getPersonalizedTips(financialData)
            none == /\ ~RateBelowTwentyPercent(analysed)
                    /\ ~DominantAboveFortyPercent(analysed)
                    /\ ~Overspent(analysed)
        IN  /\ Len(tips) >= 1
            /\ Occurrences(tips, DoingGreat) > 0 <=> none
            /\ none => tips = <<DoingGreat>>

\* A snapshot of an income without expenses, on which no rule fires.
C12_Witness ==
    /\ HasSnapshot
    /\ getPersonalizedTips(financialData) = <<DoingGreat>>
    /\ financialData.totalIncome > 0

(***************************************************************************)
(* C13, C14: the debt figures and the AI Debt Strategy card.               *)
(***************************************************************************)
\* The sum of the minimum payments of the debts at the positions I.
RECURSIVE SumMinimumOver(_, _)
SumMinimumOver(ds, I) ==
    IF I = {} THEN 0
    ELSE LET i == CHOOSE j \in I : TRUE
         IN  ds[i].minimumPayment + SumMinimumOver(ds, I \ {i})

DebtFigures == DebtTotals(transactions, debts)

\* The three figures are the sums over the lists held.
DebtFiguresExact ==
    /\ DebtFigures.totalDebt = SumOver(debts, DOMAIN debts)
    /\ DebtFigures.monthlyDebtPayment = SumMinimumOver(debts, DOMAIN debts)
    /\ DebtFigures.availableForDebt
          = SumOver(transactions, IncomeRows(transactions))
              - SumOver(transactions, ExpenseRows(transactions))
    /\ DebtFigures.availableForDebt = Totals(transactions).balance

\* The figures have the first fall on or above the second.
Covers(available, minimum) == ~(available < minimum)

\* The page reports the debt as affordable.
ReportedAffordable ==
    DebtStrategyShown(DebtFigures) /\ DebtStatus(DebtFigures) = CanAfford

\* No transaction and one debt of 1000 with a minimum payment of 50.
DebtScenario ==
    /\ transactions = <<>>
    /\ Len(debts) = 1
    /\ debts[1].amount = 1000
    /\ debts[1].minimumPayment = 50

DebtScenarioResult ==
    /\ DebtFigures.totalDebt = 1000
    /\ DebtFigures.monthlyDebtPayment = 50
    /\ DebtFigures.availableForDebt = 0
    /\ ~ReportedAffordable

\* C13 as stated: total_debt is the sum of the principals, monthly_minimum
\* the sum of the minimum payments, available_for_debt the balance, and
\* the debt is reported affordable if and only if available_for_debt >=
\* monthly_minimum; no transaction and one debt of 1000 with minimum
\* payment 50 give 1000, 50, 0 and not affordable.
C13_AffordableIffCovered ==
    /\ DebtFiguresExact
    /\ ReportedAffordable
          <=> Covers(DebtFigures.availableForDebt, DebtFigures.monthlyDebtPayment)
    /\ DebtScenario => DebtScenarioResult

\* C13 as amended: the three figures are those sums for any debts and
\* transactions; the affordability is reported only while total_debt > 0
\* (the card that holds it is not rendered otherwise), and then the debt
\* is reported affordable if and only if available_for_debt >=
\* monthly_minimum and as needing more income otherwise; the scenario
\* gives 1000, 50, 0 and not affordable.
C13_AffordableIffCoveredWhileInDebt ==
    /\ DebtFiguresExact
    /\ DebtStrategyShown(DebtFigures) <=> SumOver(debts, DOMAIN debts) > 0
    /\ DebtStrategyShown(DebtFigures) =>
          /\ ReportedAffordable
                <=> Covers(DebtFigures.availableForDebt, DebtFigures.monthlyDebtPayment)
          /\ DebtStatus(DebtFigures) \in {CanAfford, NeedMoreIncome}
    /\ ~DebtStrategyShown(DebtFigures) => ~ReportedAffordable
    /\ DebtScenario => DebtScenarioResult /\ DebtStatus(DebtFigures) = NeedMoreIncome

\* Two debts and some transactions, reported affordable.
C13_Witness ==
    /\ Len(debts) = 2
    /\ Len(transactions) = 2
    /\ ReportedAffordable
    /\ DebtFigures.monthlyDebtPayment > 50

\* The month count shown, if one is.
MonthsShown(k) ==
    DebtStrategyShown(DebtFigures) /\ DebtFreeTimeline(DebtFigures) = Rat(k, 1)

NoMonthsShown ==
    DebtStrategyShown(DebtFigures) => DebtFreeTimeline(DebtFigures) = FocusOnIncome

\* k = ceil(total / divisor) for a positive divisor.
IsCeiling(k, total, divisor) ==
    /\ k * divisor >= total
    /\ (k - 1) * divisor < total

\* The divisions the timeline makes are by positive numbers.
DivisorPositive ==
    (DebtStrategyShown(DebtFigures) /\ DebtFreeTimeline(DebtFigures) # FocusOnIncome)
        => DebtFigures.availableForDebt - DebtFigures.monthlyDebtPayment > 0

\* C14 as stated: payoff_months_estimate is ceil(total_debt /
\* (available_for_debt - monthly_minimum)) when available_for_debt >
\* monthly_minimum, and no month count is shown when available_for_debt
\* <= monthly_minimum, equality included; the divisor is never zero or
\* negative.
C14_PayoffMonths ==
    LET m == DebtFigures
        divisor == m.availableForDebt - m.monthlyDebtPayment
    IN  /\ divisor > 0 =>
              \E k \in -Abs(m.totalDebt)..Abs(m.totalDebt) :
                  MonthsShown(k) /\ IsCeiling(k, m.totalDebt, divisor)
        /\ divisor <= 0 => NoMonthsShown
        /\ DivisorPositive

\* C14 as amended: while total_debt > 0, the month count shown is
\* ceil(total_debt / (available_for_debt - monthly_minimum)), at least 1,
\* when available_for_debt > monthly_minimum, and no month count is shown
\* when available_for_debt <= monthly_minimum, equality included; with
\* total_debt <= 0 the timeline is not rendered at all; the divisor is
\* never zero or negative.
C14_PayoffMonthsWhileInDebt ==
    LET m == DebtFigures
        divisor == m.availableForDebt - m.monthlyDebtPayment
    IN  /\ (m.totalDebt > 0 /\ divisor > 0) =>
              \E k \in 1..m.totalDebt :
                  MonthsShown(k) /\ IsCeiling(k, m.totalDebt, divisor)
        /\ (m.totalDebt > 0 /\ divisor <= 0) =>
              /\ DebtStrategyShown(m)
              /\ DebtFreeTimeline(m) = FocusOnIncome
        /\ m.totalDebt <= 0 => ~DebtStrategyShown(m)
        /\ DivisorPositive

\* A month count that the rounding up decides: 3 months for 2000 at 750.
C14_Witness ==
    /\ DebtFigures.totalDebt = 2000
    /\ DebtFigures.availableForDebt - DebtFigures.monthlyDebtPayment = 750
    /\ MonthsShown(3)

(***************************************************************************)
(* C15: a fetch that fails during an analysis.                             *)
(***************************************************************************)
\* C15: an analysis (generateRecommendations) whose fetch of the
\* transactions fails ends with the error toast on the page and without
\* the "Financial Analysis Complete!" toast.
C15_FailedFetchShowsError ==
    [][(generateRecommendations /\ lastFetch'.status = "error")
          => (toast' = "Error" /\ toast' # "Financial Analysis Complete!")]_vars

(***************************************************************************)
(* C16: overlapping loadFinancialData invocations.                         *)
(***************************************************************************)
AllArrived == \A i \in DOMAIN requests : requests[i].phase = "done"

Latest == requests[Len(requests)]

\* C16: once the responses of overlapping loadFinancialData invocations
\* have all arrived, whatever their order, the snapshot held is the one
\* computed from the most recently started fetch (where that fetch
\* returned rows): it has the totals, balance, savings rate and breakdown
\* of the rows that fetch returned.
C16_LatestFetchWins ==
    (AllArrived /\ Len(requests) >= 2 /\ Latest.ok /\ Len(Latest.rows) > 0) =>
        /\ HasSnapshot
        /\ SameAggregates(financialData, ComputeSnapshot(Latest.rows))

(***************************************************************************)
(* C17: the local lists and the signed-in user.                            *)
(***************************************************************************)
OwnerOfTransaction(t) ==
    CHOOSE u \in Users : \E i \in DOMAIN TransactionsOf(u) : TransactionsOf(u)[i].id = t.id

OwnerOfDebt(d) ==
    CHOOSE u \in Users : \E i \in DOMAIN DebtsOf(u) : DebtsOf(u)[i].id = d.id

\* C17: in every reachable state of the dashboard, every transaction and
\* every debt held in the local lists belongs to the user currently signed
\* in; after a change of user or a sign-out no record of the previous user
\* remains, also when a load started for the previous user completes after
\* the change.
C17_LocalRecordsOfCurrentUser ==
    /\ \A i \in DOMAIN transactions : OwnerOfTransaction(transactions[i]) = user
    /\ \A i \in DOMAIN debts : OwnerOfDebt(debts[i]) = user

(***************************************************************************)
(* C18: row-level security.                                                *)
(***************************************************************************)
\* The rows of all four tables that are not owned by the user.
RowsOfOthers(tbls, uid) ==
    [t \in SecuredTables |-> {r \in tbls[t] : r.user_id # uid}]

\* C18: every statement of a client authenticated as a user returns and
\* changes only rows whose user_id is that user: the rows it reports
\* (selected, inserted, updated, deleted) are the user's own, and the rows
\* of everybody else are after it what they were before it; a client
\* without a session reads and changes nothing.
C18_OnlyOwnRows ==
    [][LET uid == lastOp'.uid
       IN  /\ \A r \in lastOp'.rows : r.user_id = uid /\ uid \in Users
           /\ RowsOfOthers(tables', uid) = RowsOfOthers(tables, uid)
           /\ uid \notin Users => tables' = tables]_vars

\* User A has sent a delete of a row owned by B: it has removed nothing.
C18_Witness ==
    /\ lastOp.uid = "A"
    /\ lastOp.cmd = "DELETE"
    /\ lastOp.rows = {}
    /\ \E r \in tables[lastOp.table] : r.id = lastOp.target /\ r.user_id = "B"

(***************************************************************************)
(* C19: a successful run of the edge function.                             *)
(***************************************************************************)
Successful == edge.pc = "done" /\ edge.response.kind = "recommendations"

\* C19: a successful run has inserted exactly one ai_recommendations row;
\* the row is owned by the authenticated user, its text is the content the
\* language model returned, unchanged, and the response, with status 200,
\* carries the same text.
C19_OneRowWithTheReturnedText ==
    Successful =>
        LET saved == ai_recommendations[Len(ai_recommendations)]
        IN  /\ Len(ai_recommendations) = edge.rowsBefore + 1
            /\ saved.user_id = edge.user
            /\ edge.user \in Users
            /\ saved.recommendations = edge.content
            /\ edge.content \in Contents
            /\ edge.response = [status |-> 200, kind |-> "recommendations",
                                 text |-> edge.content]

\* The second successful run, for another user and with another text.
C19_Witness ==
    /\ Successful
    /\ Len(ai_recommendations) = 2
    /\ ai_recommendations[1].user_id # ai_recommendations[2].user_id
    /\ ai_recommendations[1].recommendations # ai_recommendations[2].recommendations

(***************************************************************************)
(* C20: the three computations of the aggregates.                          *)
(***************************************************************************)
\* The transactions of the user as the edge function fetches them
\* (created_at descending).
EdgeRows == Reverse(store)

\* The snapshot of AIRecommendations, the summary of the edge function
\* and the totals of BudgetDashboard agree.
AggregatesAgree ==
    LET e == EdgeSummary(EdgeRows)
        d == Totals(transactions)
    IN  /\ HasSnapshot
        /\ financialData.totalIncome = e.totalIncome
        /\ financialData.totalExpenses = e.totalExpenses
        /\ financialData.balance = e.balance
        /\ AsMapping(financialData.expenseBreakdown) = AsMapping(e.expensesByCategory)
        /\ d.totalIncome = e.totalIncome
        /\ d.totalExpenses = e.totalExpenses
        /\ d.balance = e.balance

\* C20: for every transaction list of the user, once AIRecommendations has
\* fetched it, total income, total expenses, balance and the per-category
\* breakdown of the edge function equal those of AIRecommendations, and
\* the totals and balance equal those of BudgetDashboard.
C20_ThreeImplementationsAgree ==
    (activeTab = "ai-insights" /\ lastFetch.status = "ok") => AggregatesAgree

(***************************************************************************)
(* Settings: the debounced auto-save of the display name.                  *)
(***************************************************************************)
EventsOfKind(kind) == {i \in DOMAIN events : events[i].kind = kind}

\* The latest edit before event i (0: none).
LastEditBefore(i) ==
    LET before == {j \in EventsOfKind("edit") : j < i}
    IN  IF before = {} THEN 0 ELSE CHOOSE j \in before : \A k \in before : k <= j

\* C21: every pending auto-save timer is the one of the latest edit (an
\* edit cancels the timer of the edit before it); every auto-save is
\* issued at least AutoSaveDelay after the latest edit, with the value of
\* that edit, which is not empty after trimming; no second auto-save
\* follows without an edit in between; and no auto-save falls between two
\* edits less than AutoSaveDelay apart.
C21_DebouncedAutoSave ==
    /\ \A t \in timers :
          /\ t.id = displayNameTimeout
          /\ t.id = LastEditBefore(Len(events) + 1)
          /\ t.value = events[t.id].value
    /\ \A i \in EventsOfKind("auto-save") :
          LET j == LastEditBefore(i)
          IN  /\ j # 0
              /\ events[i].value = events[j].value
              /\ events[i].at - events[j].at >= AutoSaveDelay
              /\ trim(events[i].value) # <<>>
              /\ \A k \in EventsOfKind("auto-save") : ~(j < k /\ k < i)
    /\ \A j1, j2 \in EventsOfKind("edit") :
          (j1 < j2 /\ events[j2].at - events[j1].at < AutoSaveDelay)
              => \A i \in EventsOfKind("auto-save") : ~(j1 < i /\ i < j2)

\* A burst of two edits less than AutoSaveDelay apart has been followed by
\* its auto-save, and the timer of an edit to white space has fired
\* without a save.
C21_Witness ==
    /\ \E j1, j2 \in EventsOfKind("edit"), i \in EventsOfKind("auto-save") :
          /\ j1 < j2 /\ j2 < i
          /\ events[j2].at - events[j1].at < AutoSaveDelay
          /\ events[j1].value # events[j2].value
    /\ \E j \in EventsOfKind("edit") :
          /\ trim(events[j].value) = <<>>
          /\ j = LastEditBefore(Len(events) + 1)
          /\ timers = {}
          /\ now - events[j].at >= AutoSaveDelay

\* C22: no saveDisplayName call is made by the debounce timer once the
\* Settings component has unmounted.
C22_NoAutoSaveAfterUnmount ==
    \A i \in EventsOfKind("auto-save") : events[i].mounted

(***************************************************************************)
(* The account: deleteAccount and the profile rows.                        *)
(***************************************************************************)
\* The rows that the store holds for user u in profiles, transactions and
\* debts.
AccountRows(u, ps, tbls) ==
    {r \in ps \cup tbls["transactions"] \cup tbls["debts"] : r.user_id = u}

\* C23: deleteAccount deletes nothing unless both dialogs were accepted,
\* and when it reports that the data has been deleted and the user signed
\* out, no profiles, transactions or debts row of that user is left and
\* nobody is signed in.
C23_DeletedWhenReported ==
    [][deleteAccount =>
         /\ ~(account'.firstConfirm /\ account'.secondConfirm)
               => (profiles' = profiles /\ tables' = tables)
         /\ (toast' = "Account deletion initiated" /\ account'.firstConfirm)
               => (AccountRows(account'.user, profiles', tables') = {} /\ user' = NoUser)]_vars

\* C27: the profiles table holds at most one row for each user.
C27_OneProfilePerUser ==
    \A u \in Users : Cardinality({r \in profiles : r.user_id = u}) <= 1

(***************************************************************************)
(* Passwords.                                                              *)
(***************************************************************************)
\* The password is too short or differs from its confirmation.
Rejectable(password, confirmPassword) ==
    Len(password) < MinPasswordLength \/ password # confirmPassword

ErrorTitles == {"Passwords don't match", "Invalid password", "Error"}

\* C24: no request to set a password shorter than MinPasswordLength or
\* different from its confirmation reaches the authentication backend;
\* a handler run with such a password has shown an error toast and has
\* left isLoading false.
C24_NoWeakPasswordRequested ==
    /\ \A i \in DOMAIN authRequests :
          ~Rejectable(authRequests[i].password, authRequests[i].confirmPassword)
    /\ \A f \in PasswordForms :
          (submitted[f].phase # "none"
             /\ Rejectable(submitted[f].password, submitted[f].confirmPassword))
          => /\ submitted[f].phase = "finished"
             /\ submitted[f].toast \in ErrorTitles
             /\ ~isLoadingOf[f]

\* Both forms have turned a password down, one for its length and one for
\* its confirmation, and a request has been made for an acceptable one.
C24_Witness ==
    /\ authRequests # <<>>
    /\ submitted["SignUpForm"].phase = "finished"
    /\ Len(submitted["SignUpForm"].password) < MinPasswordLength
    /\ submitted["SignUpForm"].password = submitted["SignUpForm"].confirmPassword
    /\ submitted["Settings"].phase = "finished"
    /\ submitted["Settings"].password # submitted["Settings"].confirmPassword

(***************************************************************************)
(* The dashboard's handlers and the store.                                 *)
(***************************************************************************)
ErrorToasts ==
    {"Authentication required", "Error saving transaction", "Error removing transaction"}

\* C25: handleAddTransaction and handleDeleteTransaction leave the local
\* list alone until the store has answered; without a signed-in user, or
\* on an error of the store, the list is unchanged and an error toast is
\* shown; on success the add prepends the stored row and the delete
\* removes the entry with the given id and nothing else.
C25_ListFollowsTheStore ==
    [][/\ (AddTransactionRequest \/ DeleteTransactionRequest)
             => /\ transactions' = transactions
                /\ user = NoUser
                      => /\ requests'[Len(requests')].phase = "returned"
                         /\ toast' \in ErrorToasts
       /\ \A i \in DOMAIN requests :
             (HandlerResumes(i) /\ requests[i].kind \in {"add", "delete"})
             => IF ~requests[i].ok
                THEN transactions' = transactions /\ toast' \in ErrorToasts
                ELSE IF requests[i].kind = "add"
                THEN transactions' = <<requests[i].row>> \o transactions
                ELSE /\ \A t \in {transactions[k] : k \in DOMAIN transactions} :
                           t.id # requests[i].id
                           => \E k \in DOMAIN transactions' : transactions'[k] = t
                     /\ transactions' =
                           SelectSeq(transactions, LAMBDA t : t.id # requests[i].id)]_vars

\* The ids of a list of rows.
Ids(s) == {s[k].id : k \in DOMAIN s}

\* C29: once every call of the session has completed, and successfully,
\* the local list holds exactly the rows of the user in the store.
C29_ListEqualsStoreAtRest ==
    (user # NoUser /\ \A i \in DOMAIN requests : requests[i].phase = "done" /\ requests[i].ok)
        => (Ids(transactions) = Ids(store) /\ Len(transactions) = Len(store))

\* C28: a successful handleDeleteDebt(index) removes from the local list
\* the debt whose row it deleted in the store and no other, whatever has
\* happened to the list while the request was in flight; once every call
\* has completed successfully the list holds the debts of the store.
C28_RemovesTheDeletedDebt ==
    [][/\ \A i \in DOMAIN requests :
             (DebtHandlerResumes(i) /\ requests[i].kind = "delete" /\ requests[i].ok)
             => debts' = SelectSeq(debts, LAMBDA d : d.id # requests[i].id)
       /\ (\A i \in DOMAIN requests' : requests'[i].phase = "done" /\ requests'[i].ok)
             => Ids(debts') = Ids(debtStore')]_vars

(***************************************************************************)
(* C26: the order of the steps of the edge function.                       *)
(***************************************************************************)
StepOrder == <<"getUser", "profile", "transactions", "openai", "insert">>

\* The last awaited call of the invocation did not succeed.
LastStepFailed == edge.steps # <<>> /\ edge.steps[Len(edge.steps)].outcome # "ok"

\* C26: the awaited calls of an invocation are token validation, profile,
\* transactions, language model and insert, in this order and none
\* skipped; after a call that did not succeed no further call is made; a
\* 200 response with recommendations follows five successful calls; a
\* failed call ends the invocation with an error response, of status 400
\* when the profile is missing and 500 otherwise; the function runs on
\* only while every call so far has succeeded.
C26_StepsInOrder ==
    /\ Len(edge.steps) <= Len(StepOrder)
    /\ \A k \in DOMAIN edge.steps :
          /\ edge.steps[k].step = StepOrder[k]
          /\ k < Len(edge.steps) => edge.steps[k].outcome = "ok"
    /\ Successful =>
          /\ Len(edge.steps) = Len(StepOrder)
          /\ ~LastStepFailed
          /\ edge.response.status = 200
    /\ LastStepFailed =>
          /\ edge.pc = "done"
          /\ edge.response.kind = "error"
          /\ edge.response.status =
                IF edge.steps[Len(edge.steps)] = [step |-> "profile", outcome |-> "missing"]
                THEN 400 ELSE 500
    /\ (edge.pc = "done" /\ edge.response.kind = "error") =>
          /\ edge.steps = <<>> \/ LastStepFailed
          /\ edge.steps = <<>> => edge.response.status = 500
    /\ edge.pc \notin {"idle", "done"} =>
          /\ ~LastStepFailed
          /\ StepOrder[Len(edge.steps) + 1] =
                (IF edge.pc = "save" THEN "insert" ELSE edge.pc)

\* After a run that answered 200 with recommendations, a run that ends
\* with 400 at the missing profile.
C26_Witness ==
    /\ ai_recommendations # <<>>
    /\ edge.pc = "done"
    /\ edge.response.status = 400
    /\ Len(edge.steps) = 2

(***************************************************************************)
(* C30: the nine questions of ProfileChat.                                 *)
(***************************************************************************)
\* The positions of the user messages, oldest first.
RECURSIVE UserPositions(_)
UserPositions(n) ==
    IF n = 0 THEN <<>>
    ELSE IF messages[n].type = "user" THEN Append(UserPositions(n - 1), n)
    ELSE UserPositions(n - 1)

\* The text of the question was shown as a bot message before position p.
ShownBefore(j, p) ==
    \E i \in 1..(p - 1) :
        messages[i].type = "bot" /\ messages[i].content = questions[j].question

Completions ==
    Cardinality({i \in DOMAIN messages :
                    messages[i].type = "bot" /\ messages[i].content = Perfect})

\* The index stays within the questions and onComplete is called only with
\* all nine fields.
ChatWithinBounds ==
    /\ currentQuestionIndex \in 0..(Len(questions) - 1)
    /\ hasProfile => Cardinality(DOMAIN profileData) = Len(questions)

\* A question's text is shown before the answer to it is accepted.
ChatAsksBeforeAnswer ==
    LET sent == UserPositions(Len(messages))
    IN  \A j \in DOMAIN sent : j <= Len(questions) => ShownBefore(j, sent[j])

\* At most nine answers are accepted and at most one completion message
\* is added.
ChatAnswersOnce == Sends <= Len(questions) /\ Completions <= 1

\* C30: the nine questions are answered in order, each once: a question's
\* text is shown as a bot message before its answer is accepted, the
\* answers are stored under the questions in their order, the index never
\* exceeds 8, after the ninth answer no further answer is accepted and one
\* completion message is added, and onComplete is called only with all
\* nine fields.
C30_NineQuestionsInOrder ==
    /\ ChatWithinBounds
    /\ ChatAsksBeforeAnswer
    /\ ChatAnswersOnce
    /\ LET sent == UserPositions(Len(messages))
       IN  \A j \in 1..Len(questions) :
              j <= Len(sent) =>
                 /\ questions[j].id \in DOMAIN profileData
                 /\ profileData[questions[j].id] = messages[sent[j]].content

====
